---- MODULE Spec2Model ----
(***************************************************************************)
(* A model of pkg/batch (MemoryBatchQueue): the ingress queue, the          *)
(* admission producer, the partition queues, the partition consumer, the    *)
(* goroutine pool and the per-Push finish closure.                          *)
(*                                                                          *)
(* Every goroutine is a process with a program counter.  A step is atomic   *)
(* where the code holds a mutex or touches only goroutine-local data; the   *)
(* unsynchronised accesses (q.flag, the read of `finished` after            *)
(* mu.Unlock()) are steps of their own.                                     *)
(***************************************************************************)
EXTENDS Integers, Sequences, FiniteSets, TLC

\* ---------------------------------------------------------------- constants
DefaultTaskWaitDuration == 50
DefaultQueueConsumeRate == 100
FlagAboutToClose == 1
FlagClosing == 2
FlagClosed == 3
ErrorTimedOut == "task timed out in queue"
\* the error pool.Invoke returns when it refuses a chunk
ErrPoolRejected == "pool rejected the chunk"
NoError == "nil"

\* ------------------------------------------------------------------- bounds
MaxTasks == 3        \* tasks created over a run
MaxPushLen == 2      \* longest argument list of one Push call
MaxCalls == 2        \* Push calls over a run
MaxCloseCalls == 2   \* Close calls over a run
MaxPoolSize == 2     \* largest poolSize given to NewMemoryBatchQueue
MaxBatchSize == 2    \* largest size the BatchSizeProvider returns
MaxClockTicks == 2   \* advances of the clock over a run
MaxRejects == 1      \* chunks the pool refuses over a run
MaxEvents == 4       \* tasks pushed, Close calls, refusals and clock ticks over a run
Epoch == 100         \* time.Now() in milliseconds at construction
MaxSingleLen == 5    \* longest argument list of the single Push of SpecSingle
MaxFinalPasses == 2  \* passes counted after the consumer saw FlagClosing
MaxNegSize == 1      \* the provider's sizes go down to 0 - MaxNegSize
MaxRetryMax == 3     \* largest max given to retry.Simple / retry.WithInterval
MaxGets == 2         \* FailOverCache.Get calls over a run
MaxRemoves == 1      \* FailOverCache.Remove calls over a run
MaxCacheClock == 8   \* last second the cache's clock reaches
ShortExp1 == 1       \* a level 1 expiration (seconds) too short for pre-refresh
Exp2 == 8            \* the level 2 expiration (seconds)
Partitions == {"p", "q"}

VARIABLES
    env,         \* what the run's callers may do: [tasks, pushLen, calls, closes,
                 \* rejects, ticks, events, split]; never changes
    flag,        \* q.flag
    ingress,     \* q.q : sequence of task ids
    partitions,  \* q.partitions : key -> [q, firstQueued]
    bsp,         \* the BatchSizeProvider's mapping
    poolSize,    \* capacity of q.pool
    workers,     \* pool worker slot -> [pc, chunk, i]
    rejects,     \* chunks refused by the pool so far
    now,         \* time.Now().UnixNano()/1e6
    tasks,       \* task id -> [partition, fin, seq, queued, result, err, cb]; seq
                 \* is the task's place in the order of entry into q.q (0: not
                 \* entered), queued the time it was pushed into the partition
                 \* queue it is in (0: in none)
    calls,       \* Push call -> [pc, args, seen, buf, n, finished, sends, got]
    closeCalls,  \* Close calls started
    closeSeen,   \* the values of q.flag that Close calls have read
    closePending,\* Close calls that read flag == 0 and have not written yet
    ppc,         \* producer goroutine: program counter
    ptasks,      \* producer: the popped tasks not yet routed
    spc,         \* consumer goroutine: program counter
    ssnap,       \* consumer: the keys present when Range started
    svisited,    \* consumer: the keys Range has visited in this pass
    stasks,      \* consumer: process()'s tasks
    sB,          \* consumer: process()'s batchSize
    si,          \* consumer: process()'s loop index i
    sfail,       \* consumer: tasks of a refused chunk still to fail
    hlog,        \* handler invocations: sequence of [partition, chunk, of], where
                 \* of is the number of tasks of the flush the chunk was cut from
    sfinal,      \* consumer: -1 until line 213 first reads FlagClosing, then the
                 \* number of iteratePartitions calls begun since (MaxFinalPasses
                 \* stands for that many or more)
    retry,       \* a call of retry.Simple or retry.WithInterval:
                 \* [pc, fn, max, mr, err, calls, nils, sleeps, ret]
    l1,          \* c.l1 : key -> [d, present, val, e] (go-cache, per key)
    l2,          \* c.l2
    enablePreRefresh, \* c.enablePreRefresh
    lock,        \* c.lock
    cnow,        \* time.Now() in seconds, as the cache package sees it
    gets,        \* Get call -> [pc, key, first, cached, exp, hit, remaining, spawned,
                 \*              err, v, val, fn, syncCalls, ret]; first is the
                 \*              outcome of the level 1 read of line 61
    async,       \* Get call -> the pre-refresh goroutine it started at line 67:
                 \*             [pc, val, res]
    rm,          \* Remove: [pc, n, key]
    fnCalls      \* calls of refresh functions so far

retryVars == <<retry>>

cacheVars == <<l1, l2, enablePreRefresh, lock, cnow, gets, async, rm, fnCalls>>

\* the state of the other packages, which pkg/batch never touches
others == <<retryVars, cacheVars>>

vars == <<others, env, flag, ingress, partitions, bsp, poolSize, workers, rejects, now, tasks,
          calls, closeCalls, closeSeen, closePending, ppc, ptasks, spc, ssnap,
          svisited, stasks, sB, si, sfail, hlog, sfinal>>

\* the state of pkg/batch
batchVars == <<env, flag, ingress, partitions, bsp, poolSize, workers, rejects, now,
               tasks, calls, closeCalls, closeSeen, closePending, ppc, ptasks, spc,
               ssnap, svisited, stasks, sB, si, sfail, hlog, sfinal>>

\* ------------------------------------------------------------------ helpers
Min(a, b) == IF a < b THEN a ELSE b

Range(s) == {s[i] : i \in 1..Len(s)}

TaskIds == 1..Len(tasks)

\* the partition key of the i-th task created over a run: the first env.split
\* tasks belong to "p", the later ones to "q"
TaskPartition(i) == IF i <= env.split THEN "p" ELSE "q"

\* what the environment has done so far: tasks pushed, Close calls, chunks the
\* pool refused, clock ticks
Events == Len(tasks) + closeCalls + rejects + (now - Epoch) \div DefaultTaskWaitDuration

\* Closed() : memory.go
Closed == flag = FlagClosed

IdleWorker == [pc |-> "idle", chunk |-> <<>>, i |-> 0]

NewCall == [pc |-> "idle", args |-> <<>>, seen |-> -1, buf |-> <<>>, n |-> 0,
            finished |-> 0, sends |-> 0, got |-> <<>>]

NewTask(k) ==
    [partition |-> k, fin |-> 0, seq |-> 0, queued |-> 0, result |-> FALSE,
     err |-> NoError, cb |-> 0]

\* the tasks that have entered q.q so far
Entered == {t \in TaskIds : tasks[t].seq # 0}

\* newPartitionQueue()
newPartitionQueue == [q |-> <<>>, firstQueued |-> 0]

\* ------------------------------------------------------- partitionQueue
\* isFirstTaskReady with >= for >
isFirstTaskReadyAtThreshold(pq) == now - pq.firstQueued >= DefaultTaskWaitDuration

\* partitionQueue.isFirstTaskReady
isFirstTaskReady(pq) == now - pq.firstQueued > DefaultTaskWaitDuration

\* maybeFirstTaskQueued without its test: every push stamps the queue
maybeFirstTaskQueuedAlways(pq) == [pq EXCEPT !.firstQueued = now]

\* partitionQueue.maybeFirstTaskQueued
maybeFirstTaskQueued(pq) ==
    IF pq.firstQueued = 0 THEN [pq EXCEPT !.firstQueued = now] ELSE pq

\* push that puts the task at the head of the queue
pushFront(pq, t) == maybeFirstTaskQueued([pq EXCEPT !.q = <<t>> \o @])

\* partitionQueue.push
push(pq, t) == maybeFirstTaskQueued([pq EXCEPT !.q = Append(@, t)])

\* reset without pq.q.Clear(): the flushed tasks stay queued
resetKeepsTasks(pq) == [pq EXCEPT !.firstQueued = 0]

\* partitionQueue.reset
reset(pq) == [q |-> <<>>, firstQueued |-> 0]

\* maybePop that resets the queue also when it returns nothing
maybePopResets(pq, n) ==
    IF Len(pq.q) >= n \/ isFirstTaskReady(pq)
    THEN [out |-> pq.q, pq |-> reset(pq)]
    ELSE [out |-> <<>>, pq |-> reset(pq)]

\* partitionQueue.maybePop: the tasks returned and the queue left behind
maybePop(pq, n) ==
    IF Len(pq.q) >= n \/ isFirstTaskReady(pq)
    THEN [out |-> pq.q, pq |-> reset(pq)]
    ELSE [out |-> <<>>, pq |-> pq]

\* ------------------------------------------------------ MemoryBatchQueue
\* popN: the tasks removed from q.q and what is left of it
popN(n) ==
    LET k == Min(n, Len(ingress))
    IN  [out |-> SubSeq(ingress, 1, k), rest |-> SubSeq(ingress, k + 1, Len(ingress))]

\* partitionBatchSize
partitionBatchSize(k) == bsp[k]

\* pushPartitionQueue that ignores GetPartition(): every task goes to "q"
pushPartitionQueueOneKey(t) ==
    IF "q" \in DOMAIN partitions
    THEN [partitions EXCEPT !["q"] = push(@, t)]
    ELSE partitions @@ ("q" :> push(newPartitionQueue, t))

\* pushPartitionQueue with Store for LoadOrStore: every task gets a new
\* partitionQueue, which takes the place of the one stored under its key
pushPartitionQueueFresh(t) ==
    LET k == tasks[t].partition
    IN  IF k \in DOMAIN partitions
        THEN [partitions EXCEPT ![k] = push(newPartitionQueue, t)]
        ELSE partitions @@ (k :> push(newPartitionQueue, t))

\* pushPartitionQueue: Load, else LoadOrStore of a new partitionQueue, then push
pushPartitionQueue(t) ==
    LET k == tasks[t].partition
    IN  IF k \in DOMAIN partitions
        THEN [partitions EXCEPT ![k] = push(@, t)]
        ELSE partitions @@ (k :> push(newPartitionQueue, t))

\* ns without the rounding up of lines 153-155
NumChunksFloor(l, batchSize) == l \div batchSize

\* Go's l / batchSize on ints with l >= 0 and batchSize # 0: the quotient is
\* truncated toward zero
GoDiv(l, batchSize) ==
    IF batchSize > 0 THEN l \div batchSize ELSE 0 - (l \div (0 - batchSize))

\* process: ns, the number of chunks
NumChunks(l, batchSize) ==
    LET ns == GoDiv(l, batchSize)
    IN  IF ns * batchSize < l THEN ns + 1 ELSE ns

\* process with lo := i instead of batchSize * i
ChunkOverlap(ts, batchSize, i) ==
    SubSeq(ts, i + 1, Min(batchSize * (i + 1), Len(ts)))

\* process: tmp := tasks[lo:hi] of iteration i
Chunk(ts, batchSize, i) ==
    LET lo == batchSize * i
        hi == Min(batchSize * (i + 1), Len(ts))
    IN  SubSeq(ts, lo + 1, hi)

\* ------------------------------------------------------- finish closure
\* Push's closure fn, first half: mu.Lock(); finished++; mu.Unlock()
FinishLocked(cs, t) == [cs EXCEPT ![tasks[t].fin].finished = @ + 1]

\* Push's closure fn, second half: the unlocked read `finished == n`
FinishedAll(t) == calls[tasks[t].fin].finished = calls[tasks[t].fin].n

\* finishC <- int64(finished): the goroutine starts a send on the call's channel
StartSend(t) == calls' = [calls EXCEPT ![tasks[t].fin].sends = @ + 1]

\* TestQueueTask.SetError / SetResult up to the closure's unlock
SetError(t, e) ==
    /\ tasks' = [tasks EXCEPT ![t].err = e, ![t].cb = @ + 1]
    /\ calls' = FinishLocked(calls, t)

SetResult(t) ==
    /\ tasks' = [tasks EXCEPT ![t].result = TRUE, ![t].cb = @ + 1]
    /\ calls' = FinishLocked(calls, t)

\* ------------------------------------------------------------------ Push
\* Push without the len(tasks) == 0 test
PushRefusesNoLen(n) == flag > FlagAboutToClose

\* Push refusing only from FlagClosed on
PushRefusesLate(n) == flag > FlagClosing \/ n = 0

\* Push, line 64: the unlocked test that returns the pre-filled channel
PushRefuses(n) == flag > FlagAboutToClose \/ n = 0

\* Push, lines 64-70: a caller builds its tasks and calls Push; the flag is
\* read before q.mu is taken.  A refused call gets make(chan int64, 1) holding 0.
PushCheck(c) ==
    /\ calls[c].pc = "idle"
    /\ \A d \in 1..(c - 1) : calls[d].pc # "idle"
    /\ c <= env.calls
    /\ \E n \in 0..env.pushLen :
       /\ Len(tasks) + n <= env.tasks
       /\ Events + n <= env.events
       /\ tasks' = tasks \o [i \in 1..n |-> NewTask(TaskPartition(Len(tasks) + i))]
       /\ calls' = [calls EXCEPT ![c] =
              [@ EXCEPT !.pc = IF PushRefuses(n) THEN "fast" ELSE "locked",
                        !.buf = IF PushRefuses(n) THEN <<0>> ELSE <<>>,
                        !.args = [i \in 1..n |-> Len(tasks) + i],
                        !.seen = flag]]
    /\ UNCHANGED <<others, env, sfinal, flag, ingress, partitions, bsp, poolSize, workers, rejects, now,
                   closeCalls, closeSeen, closePending, ppc, ptasks, spc, ssnap, svisited,
                   stasks, sB, si, sfail, hlog>>

\* Push, lines 72-97: under q.mu, bind the closure to every task and enqueue it
PushEnqueue(c) ==
    /\ calls[c].pc = "locked"
    /\ tasks' = [t \in TaskIds |->
                   IF t \in Range(calls[c].args)
                   THEN [tasks[t] EXCEPT !.fin = c,
                            !.seq = Cardinality(Entered) + (t - calls[c].args[1] + 1)]
                   ELSE tasks[t]]
    /\ ingress' = ingress \o calls[c].args
    /\ calls' = [calls EXCEPT ![c] = [@ EXCEPT !.pc = "wait", !.n = Len(calls[c].args)]]
    /\ UNCHANGED <<others, env, sfinal, flag, partitions, bsp, poolSize, workers, rejects, now,
                   closeCalls, closeSeen, closePending, ppc, ptasks, spc, ssnap, svisited,
                   stasks, sB, si, sfail, hlog>>

\* ------------------------------------------------- Push, step by step
\* q.mu is free whatever the callers do
MuNeverHeld == FALSE

\* q.mu is held by a Push call between its Lock (line 72) and its return
MuHeld == \E c \in DOMAIN calls : calls[c].pc = "enq"

\* the arguments of Push call c that it has enqueued so far
Enqueued(c) == {i \in 1..Len(calls[c].args) : tasks[calls[c].args[i]].seq # 0}

\* Push, lines 72-80: q.mu.Lock() and the call's n, finished and finishC
PushLock(c) ==
    /\ calls[c].pc = "locked"
    /\ ~MuHeld
    /\ calls' = [calls EXCEPT ![c] = [@ EXCEPT !.pc = "enq", !.n = Len(calls[c].args)]]
    /\ UNCHANGED <<others, env, sfinal, flag, ingress, partitions, bsp, poolSize, workers,
                   rejects, now, tasks, closeCalls, closeSeen, closePending, ppc, ptasks,
                   spc, ssnap, svisited, stasks, sB, si, sfail, hlog>>

\* Push, lines 82-96: one iteration of the loop, WithFinishFunc and Enqueue
PushEnqueueOne(c) ==
    /\ calls[c].pc = "enq"
    /\ Cardinality(Enqueued(c)) < Len(calls[c].args)
    /\ LET t == calls[c].args[Cardinality(Enqueued(c)) + 1]
       IN  /\ tasks' = [tasks EXCEPT ![t].fin = c, ![t].seq = Cardinality(Entered) + 1]
           /\ ingress' = Append(ingress, t)
    /\ UNCHANGED <<others, env, sfinal, flag, partitions, bsp, poolSize, workers, rejects,
                   now, calls, closeCalls, closeSeen, closePending, ppc, ptasks, spc,
                   ssnap, svisited, stasks, sB, si, sfail, hlog>>

\* Push, line 97 with the deferred q.mu.Unlock() of line 73
PushReturn(c) ==
    /\ calls[c].pc = "enq"
    /\ Cardinality(Enqueued(c)) = Len(calls[c].args)
    /\ calls' = [calls EXCEPT ![c].pc = "wait"]
    /\ UNCHANGED <<others, env, sfinal, flag, ingress, partitions, bsp, poolSize, workers,
                   rejects, now, tasks, closeCalls, closeSeen, closePending, ppc, ptasks,
                   spc, ssnap, svisited, stasks, sB, si, sfail, hlog>>

\* ----------------------------------------------------------------- Close
\* Close without its test: the flag is written whatever it was
CloseWritesAlways(f) == TRUE

\* Close, line 101: the test `q.flag == 0` on the value f read from q.flag
CloseWrites(f) == f = 0

\* Close, line 101: the read of q.flag
CloseRead ==
    /\ closeCalls < env.closes
    /\ Events < env.events
    /\ closeCalls' = closeCalls + 1
    /\ closeSeen' = closeSeen \cup {flag}
    /\ closePending' = IF CloseWrites(flag) THEN closePending + 1 ELSE closePending
    /\ UNCHANGED <<others, env, sfinal, flag, ingress, partitions, bsp, poolSize, workers, rejects, now,
                   tasks, calls, ppc, ptasks, spc, ssnap, svisited, stasks, sB, si,
                   sfail, hlog>>

\* Close, line 102: the write q.flag = FlagAboutToClose
CloseWrite ==
    /\ closePending > 0
    /\ closePending' = closePending - 1
    /\ flag' = FlagAboutToClose
    /\ UNCHANGED <<others, env, sfinal, ingress, partitions, bsp, poolSize, workers, rejects, now, tasks,
                   calls, closeCalls, closeSeen, ppc, ptasks, spc, ssnap, svisited, stasks, sB,
                   si, sfail, hlog>>

\* sfinal after one more call of iteratePartitions has begun
PassBegun == IF sfinal < 0 THEN sfinal ELSE Min(sfinal + 1, MaxFinalPasses)

\* -------------------------------------------------------------- producer
\* the producer without lines 239-241: after the last task it sleeps and loops
ProducerNextNoTrigger == IF Len(ptasks) = 1 THEN "pop" ELSE "route"

\* what the producer does after the closure of its current task returned
ProducerNext == IF Len(ptasks) = 1 THEN "trigger" ELSE "route"

\* start, lines 223-229 (and 239-242 when nothing was popped: no trigger, sleep):
\* leave the loop on FlagClosing, else popN and, in FlagAboutToClose with
\* nothing popped, q.flag = FlagClosing
ProducerPop ==
    /\ ppc = "pop"
    /\ IF flag = FlagClosing
       THEN /\ ppc' = "done"
            /\ UNCHANGED <<others, env, sfinal, flag, ingress, ptasks>>
       ELSE /\ ptasks' = popN(DefaultQueueConsumeRate).out
            /\ ingress' = popN(DefaultQueueConsumeRate).rest
            /\ flag' = IF flag = FlagAboutToClose /\ Len(ptasks') = 0
                       THEN FlagClosing ELSE flag
            /\ ppc' = IF Len(ptasks') > 0 THEN "route" ELSE "pop"
    /\ UNCHANGED <<others, env, sfinal, partitions, bsp, poolSize, workers, rejects, now, tasks,
                   calls, closeCalls, closeSeen, closePending, spc, ssnap, svisited, stasks,
                   sB, si, sfail, hlog>>

\* ProducerPop where popN waits for q.mu (lines 113-114)
ProducerPopMu ==
    /\ flag = FlagClosing \/ ~MuHeld
    /\ ProducerPop

\* the loop body without its else: a timed out task is queued as well
AdmitAlways(t, timeout) == pushPartitionQueue(t)

\* the loop body with its branches swapped: the timed out task is queued
AdmitInverted(t, timeout) == IF timeout THEN pushPartitionQueue(t) ELSE partitions

\* start, lines 232-236: the partitions after the producer handled task t
Admit(t, timeout) == IF timeout THEN partitions ELSE pushPartitionQueue(t)

\* start, lines 231-237: one iteration of the loop over the popped tasks;
\* timeout is what t.IsTimeout() returns
ProducerRoute ==
    /\ ppc = "route"
    /\ \E timeout \in BOOLEAN :
       LET t == Head(ptasks) IN
       /\ partitions' = Admit(t, timeout)
       /\ IF timeout
          THEN /\ SetError(t, ErrorTimedOut)
               /\ ppc' = "check"
               /\ UNCHANGED ptasks
          ELSE /\ ptasks' = Tail(ptasks)
               /\ ppc' = ProducerNext
               /\ tasks' = [tasks EXCEPT ![t].queued = now]
               /\ UNCHANGED calls
    /\ UNCHANGED <<others, env, sfinal, flag, ingress, bsp, poolSize, workers, rejects, now, closeCalls, closeSeen,
                   closePending, spc, ssnap, svisited, stasks, sB, si, sfail, hlog>>

\* the closure's `if finished == n` run by the producer (inside SetError)
ProducerCheck ==
    /\ ppc = "check"
    /\ IF FinishedAll(Head(ptasks))
       THEN /\ StartSend(Head(ptasks))
            /\ ppc' = "send"
            /\ UNCHANGED ptasks
       ELSE /\ ptasks' = Tail(ptasks)
            /\ ppc' = ProducerNext
            /\ UNCHANGED calls
    /\ UNCHANGED <<others, env, sfinal, flag, ingress, partitions, bsp, poolSize, workers, rejects, now,
                   tasks, closeCalls, closeSeen, closePending, spc, ssnap, svisited, stasks,
                   sB, si, sfail, hlog>>

\* start, lines 239-242 with 202-206: the send on triggerC meets the consumer's
\* select; the consumer starts iteratePartitions, the producer sleeps and loops
ProducerTrigger ==
    /\ ppc = "trigger"
    /\ spc = "select"
    /\ ppc' = "pop"
    /\ spc' = "range"
    /\ ssnap' = DOMAIN partitions
    /\ svisited' = {}
    /\ sfinal' = PassBegun
    /\ UNCHANGED <<others, env, flag, ingress, partitions, bsp, poolSize, workers, rejects, now,
                   tasks, calls, closeCalls, closeSeen, closePending, ptasks, stasks, sB, si,
                   sfail, hlog>>

\* -------------------------------------------------------------- consumer
\* start, lines 197-201: the ticker fires and iteratePartitions starts
ConsumerTick ==
    /\ spc = "select"
    /\ spc' = "range"
    /\ ssnap' = DOMAIN partitions
    /\ svisited' = {}
    /\ sfinal' = PassBegun
    /\ UNCHANGED <<others, env, flag, ingress, partitions, bsp, poolSize, workers, rejects, now,
                   tasks, calls, closeCalls, closeSeen, closePending, ppc, ptasks, stasks, sB,
                   si, sfail, hlog>>

\* a runtime panic in a goroutine nobody recovers from ends the program: every
\* goroutine stops where it is
Panicked(procs) == [x \in DOMAIN procs |-> [procs[x] EXCEPT !.pc = "panic"]]

\* iteratePartitions, lines 176-183, with process, lines 151-155: Range's
\* callback on one key.  A key stored while Range runs may be visited or
\* missed.  With tasks popped and batch size 0, `l / batchSize` panics; with
\* ns <= 0 the loop of process has no iteration.
iteratePartitions ==
    /\ spc = "range"
    /\ \E k \in (DOMAIN partitions) \ svisited :
       LET size == partitionBatchSize(k)
           r == maybePop(partitions[k], size)
       IN  /\ partitions' = [partitions EXCEPT ![k] = r.pq]
           /\ tasks' = [t \in TaskIds |->
                          IF t \in Range(r.out) THEN [tasks[t] EXCEPT !.queued = 0]
                          ELSE tasks[t]]
           /\ svisited' = svisited \cup {k}
           /\ IF Len(r.out) # 0 /\ size = 0
              THEN /\ spc' = "panic"
                   /\ ppc' = "panic"
                   /\ workers' = Panicked(workers)
                   /\ calls' = Panicked(calls)
                   /\ UNCHANGED <<stasks, sB, si>>
              ELSE /\ IF Len(r.out) # 0 /\ 0 < NumChunks(Len(r.out), size)
                      THEN /\ stasks' = r.out
                           /\ sB' = size
                           /\ si' = 0
                           /\ spc' = "invoke"
                      ELSE UNCHANGED <<stasks, sB, si, spc>>
                   /\ UNCHANGED <<ppc, workers, calls>>
    /\ UNCHANGED <<others, env, sfinal, flag, ingress, bsp, poolSize, rejects, now,
                   closeCalls, closeSeen, closePending, ptasks, ssnap, sfail, hlog>>

\* process, line 157: the loop's next iteration, or the return to Range
ProcessAdvance ==
    IF si + 1 < NumChunks(Len(stasks), sB)
    THEN /\ si' = si + 1
         /\ spc' = "invoke"
         /\ UNCHANGED <<stasks, sB>>
    ELSE /\ si' = 0
         /\ spc' = "range"
         /\ stasks' = <<>>
         /\ sB' = 0

FreeWorkers == {w \in 1..poolSize : workers[w].pc = "idle"}

\* process that asks the provider again for every chunk it cuts
processRereads ==
    /\ spc = "invoke"
    /\ FreeWorkers # {}
    /\ LET tmp == Chunk(stasks, partitionBatchSize(tasks[stasks[1]].partition), si)
           w == CHOOSE x \in FreeWorkers : \A y \in FreeWorkers : x <= y
       IN  /\ workers' = [workers EXCEPT ![w] = [pc |-> "set", chunk |-> tmp, i |-> 1]]
           /\ hlog' = Append(hlog, [partition |-> tasks[tmp[1]].partition, chunk |-> tmp,
                                 of |-> Len(stasks)])
    /\ ProcessAdvance
    /\ UNCHANGED <<others, env, sfinal, flag, ingress, partitions, bsp, poolSize, rejects, now, tasks,
                   calls, closeCalls, closeSeen, closePending, ppc, ptasks, ssnap, svisited,
                   sfail>>

\* process, lines 158-164 with the pool function, lines 45-52: Invoke hands the
\* chunk to a free worker, which calls hdl(tasks[0].GetPartition(), tasks);
\* with no free worker Invoke blocks
process ==
    /\ spc = "invoke"
    /\ FreeWorkers # {}
    /\ LET tmp == Chunk(stasks, sB, si)
           w == CHOOSE x \in FreeWorkers : \A y \in FreeWorkers : x <= y
       IN  /\ workers' = [workers EXCEPT ![w] = [pc |-> "set", chunk |-> tmp, i |-> 1]]
           /\ hlog' = Append(hlog, [partition |-> tasks[tmp[1]].partition, chunk |-> tmp,
                                 of |-> Len(stasks)])
    /\ ProcessAdvance
    /\ UNCHANGED <<others, env, sfinal, flag, ingress, partitions, bsp, poolSize, rejects, now, tasks,
                   calls, closeCalls, closeSeen, closePending, ppc, ptasks, ssnap, svisited,
                   sfail>>

\* process, lines 164-169: Invoke returns an error
ProcessRejected ==
    /\ spc = "invoke"
    /\ rejects < env.rejects
    /\ Events < env.events
    /\ rejects' = rejects + 1
    /\ sfail' = Chunk(stasks, sB, si)
    /\ spc' = "fail"
    /\ UNCHANGED <<others, env, sfinal, flag, ingress, partitions, bsp, poolSize, workers, now, tasks,
                   calls, closeCalls, closeSeen, closePending, ppc, ptasks, ssnap, svisited,
                   stasks, sB, si, hlog>>

\* process, lines 166-168: t.SetError(err) on the next task of the refused chunk
ProcessFail ==
    /\ spc = "fail"
    /\ SetError(Head(sfail), ErrPoolRejected)
    /\ spc' = "failcheck"
    /\ UNCHANGED <<others, env, sfinal, flag, ingress, partitions, bsp, poolSize, workers, rejects, now,
                   closeCalls, closeSeen, closePending, ppc, ptasks, ssnap, svisited, stasks,
                   sB, si, sfail, hlog>>

\* the consumer after the closure of the head of sfail returned
ProcessFailNext ==
    /\ sfail' = Tail(sfail)
    /\ IF Len(sfail) > 1
       THEN /\ spc' = "fail"
            /\ UNCHANGED <<stasks, sB, si>>
       ELSE ProcessAdvance

\* the closure's `if finished == n` run by the consumer (inside SetError)
ProcessFailCheck ==
    /\ spc = "failcheck"
    /\ IF FinishedAll(Head(sfail))
       THEN /\ StartSend(Head(sfail))
            /\ spc' = "send"
            /\ UNCHANGED <<sfail, stasks, sB, si>>
       ELSE /\ ProcessFailNext
            /\ UNCHANGED calls
    /\ UNCHANGED <<others, env, sfinal, flag, ingress, partitions, bsp, poolSize, workers, rejects, now,
                   tasks, closeCalls, closeSeen, closePending, ppc, ptasks, ssnap, svisited,
                   hlog>>

\* iteratePartitions returns (every key present at its start has been visited)
\* and start, lines 210-216, reads q.flag
ConsumerFlag ==
    /\ spc = "range"
    /\ ssnap \subseteq svisited
    /\ spc' = IF flag = FlagClosed THEN "done"
              ELSE IF flag = FlagClosing THEN "setclosed" ELSE "select"
    /\ ssnap' = {}
    /\ svisited' = {}
    /\ sfinal' = IF flag = FlagClosing /\ sfinal < 0 THEN 0 ELSE sfinal
    /\ UNCHANGED <<others, env, flag, ingress, partitions, bsp, poolSize, workers, rejects, now,
                   tasks, calls, closeCalls, closeSeen, closePending, ppc, ptasks, stasks, sB,
                   si, sfail, hlog>>

\* start, line 215: the write q.flag = FlagClosed
ConsumerSetClosed ==
    /\ spc = "setclosed"
    /\ flag' = FlagClosed
    /\ spc' = "select"
    /\ UNCHANGED <<others, env, sfinal, ingress, partitions, bsp, poolSize, workers, rejects, now, tasks,
                   calls, closeCalls, closeSeen, closePending, ppc, ptasks, ssnap, svisited,
                   stasks, sB, si, sfail, hlog>>

\* --------------------------------------------------------------- workers
\* a handler that walks its chunk from the last task to the first
WorkerTaskReversed(w) ==
    workers[w].chunk[Len(workers[w].chunk) - workers[w].i + 1]

\* the task of its chunk the handler is at
WorkerTask(w) == workers[w].chunk[workers[w].i]

\* the worker after the closure of its current task returned
WorkerNext(w) ==
    IF workers[w].i < Len(workers[w].chunk)
    THEN [workers[w] EXCEPT !.pc = "set", !.i = @ + 1]
    ELSE IdleWorker

\* the handler (TestMemoryBatchTaskQueue's hdl): v.SetResult(r) on the next task
\* of the chunk, up to the closure's unlock
HandlerSetResult(w) ==
    /\ workers[w].pc = "set"
    /\ SetResult(WorkerTask(w))
    /\ workers' = [workers EXCEPT ![w].pc = "check"]
    /\ UNCHANGED <<others, env, sfinal, flag, ingress, partitions, bsp, poolSize, rejects, now,
                   closeCalls, closeSeen, closePending, ppc, ptasks, spc, ssnap, svisited,
                   stasks, sB, si, sfail, hlog>>

\* the closure's `if finished == n` run by a worker (inside SetResult)
HandlerCheck(w) ==
    /\ workers[w].pc = "check"
    /\ IF FinishedAll(WorkerTask(w))
       THEN /\ StartSend(WorkerTask(w))
            /\ workers' = [workers EXCEPT ![w].pc = "send"]
       ELSE /\ workers' = [workers EXCEPT ![w] = WorkerNext(w)]
            /\ UNCHANGED calls
    /\ UNCHANGED <<others, env, sfinal, flag, ingress, partitions, bsp, poolSize, rejects, now, tasks,
                   closeCalls, closeSeen, closePending, ppc, ptasks, spc, ssnap, svisited,
                   stasks, sB, si, sfail, hlog>>

\* --------------------------------------------------------------- callers
\* what a receive on call c's channel does to the call: the value sent is
\* int64(finished), read by the sender when the send started
Received(c) ==
    [calls EXCEPT ![c] = [@ EXCEPT !.pc = "done", !.got = Append(@, calls[c].finished)]]

\* the caller's <-finishC meets the send of a closure run by the producer
RecvFromProducer(c) ==
    /\ calls[c].pc = "wait"
    /\ ppc = "send"
    /\ tasks[Head(ptasks)].fin = c
    /\ calls' = Received(c)
    /\ ptasks' = Tail(ptasks)
    /\ ppc' = ProducerNext
    /\ UNCHANGED <<others, env, sfinal, flag, ingress, partitions, bsp, poolSize, workers, rejects, now,
                   tasks, closeCalls, closeSeen, closePending, spc, ssnap, svisited, stasks,
                   sB, si, sfail, hlog>>

\* the caller's <-finishC meets the send of a closure run by the consumer
RecvFromConsumer(c) ==
    /\ calls[c].pc = "wait"
    /\ spc = "send"
    /\ tasks[Head(sfail)].fin = c
    /\ calls' = Received(c)
    /\ ProcessFailNext
    /\ UNCHANGED <<others, env, sfinal, flag, ingress, partitions, bsp, poolSize, workers, rejects, now,
                   tasks, closeCalls, closeSeen, closePending, ppc, ptasks, ssnap, svisited,
                   hlog>>

\* the caller's <-finishC meets the send of a closure run by a worker
RecvFromWorker(c, w) ==
    /\ calls[c].pc = "wait"
    /\ workers[w].pc = "send"
    /\ tasks[WorkerTask(w)].fin = c
    /\ calls' = Received(c)
    /\ workers' = [workers EXCEPT ![w] = WorkerNext(w)]
    /\ UNCHANGED <<others, env, sfinal, flag, ingress, partitions, bsp, poolSize, rejects, now, tasks,
                   closeCalls, closeSeen, closePending, ppc, ptasks, spc, ssnap, svisited,
                   stasks, sB, si, sfail, hlog>>

\* ---------------------------------------------------- BatchSizeProvider
\* BatchSizeProvider.Set(k, n) of a provider that keeps a mapping: a caller
\* changes the batch size of partition k
Set(k, n) ==
    /\ n # bsp[k]
    /\ bsp' = [bsp EXCEPT ![k] = n]
    /\ UNCHANGED <<others, env, sfinal, flag, ingress, partitions, poolSize, workers,
                   rejects, now, tasks, calls, closeCalls, closeSeen, closePending, ppc,
                   ptasks, spc, ssnap, svisited, stasks, sB, si, sfail, hlog>>

\* ----------------------------------------------------------------- clock
\* time passes: the clock advances by one wait threshold
ClockTick ==
    /\ now < Epoch + env.ticks * DefaultTaskWaitDuration
    /\ Events < env.events
    /\ now' = now + DefaultTaskWaitDuration
    /\ UNCHANGED <<others, env, sfinal, flag, ingress, partitions, bsp, poolSize, workers, rejects, tasks,
                   calls, closeCalls, closeSeen, closePending, ppc, ptasks, spc, ssnap,
                   svisited, stasks, sB, si, sfail, hlog>>

\* --------------------------------------------------------- package caching
locked == 1
unlocked == 0
DefaultCachePreUpdateDuration == 5   \* seconds
LongExp1 == 6                        \* the level 1 expiration of the package's test
Nil == 0                             \* the nil value; fn's values are 1, 2, ...

\* errors: 0 is nil, k > 0 is the error of the k-th call of a refresh function,
\* and fmt.Errorf("error refreshing cache: %w", e) is a negative number
Wrap(e) == 0 - (e + 1)

\* the keys callers use
Keys == {"a", "b"}

\* go-cache, the item of one key: cache.New(d, ...), Set(key, x, 0), Get /
\* GetWithExpiration and Delete
NewCache(d) == [d |-> d, present |-> FALSE, val |-> Nil, e |-> 0]
CacheSet(ch, x, t) ==
    [ch EXCEPT !.present = TRUE, !.val = x, !.e = IF ch.d > 0 THEN t + ch.d ELSE 0]
CacheHit(ch, t) == ch.present /\ ~(ch.e > 0 /\ t > ch.e)
CacheGet(ch, t) == IF CacheHit(ch, t) THEN ch.val ELSE Nil
CacheDelete(ch) == [ch EXCEPT !.present = FALSE, !.val = Nil, !.e = 0]

GetIds == 1..MaxGets
NoGet ==
    [pc |-> "idle", key |-> "none", first |-> "none", cached |-> Nil, exp |-> 0, hit |-> FALSE,
     remaining |-> 0,
     spawned |-> FALSE, err |-> 0, v |-> Nil, val |-> Nil, fn |-> "none",
     syncCalls |-> 0, ret |-> <<>>]
NoAsync == [pc |-> "idle", val |-> Nil, res |-> 0]

\* the Get calls whose pre-refresh goroutine is running
InFlight == {g \in GetIds : async[g].pc # "idle"}

\* Get(key, fn), line 61: cached, exp, hit := c.l1.GetWithExpiration(key)
GetL1(g, key) ==
    /\ gets[g].pc = "idle"
    /\ gets' = [gets EXCEPT ![g] =
                  [@ EXCEPT !.pc = IF CacheHit(l1[key], cnow) THEN "hit" ELSE "miss",
                            !.key = key,
                            !.first = IF CacheHit(l1[key], cnow) THEN "hit" ELSE "miss",
                            !.hit = CacheHit(l1[key], cnow),
                            !.cached = CacheGet(l1[key], cnow),
                            !.exp = IF CacheHit(l1[key], cnow) THEN l1[key].e ELSE 0]]
    /\ UNCHANGED <<batchVars, retryVars, l1, l2, enablePreRefresh, lock, cnow, async, rm,
                   fnCalls>>

\* Get, lines 64-65
Update(g) ==
    /\ enablePreRefresh
    /\ gets[g].exp > cnow
    /\ gets[g].exp - cnow < DefaultCachePreUpdateDuration

\* a tryLock that succeeds whether or not the lock is held
tryLockAlways == TRUE

\* tryLock, lines 116-118: the compare-and-swap succeeds iff c.lock is unlocked
tryLock == lock = unlocked

\* Get, lines 64-73: on a hit, start the pre-refresh goroutine if update holds
\* and tryLock succeeds
GetHit(g) ==
    /\ gets[g].pc = "hit"
    /\ IF Update(g) /\ tryLock
       THEN /\ lock' = locked
            /\ async' = [async EXCEPT ![g] = [NoAsync EXCEPT !.pc = "fn"]]
            /\ gets' = [gets EXCEPT ![g] = [@ EXCEPT !.pc = "return", !.spawned = TRUE,
                                                     !.remaining = gets[g].exp - cnow]]
       ELSE /\ gets' = [gets EXCEPT ![g] = [@ EXCEPT !.pc = "return",
                                                     !.remaining = gets[g].exp - cnow]]
            /\ UNCHANGED <<lock, async>>
    /\ UNCHANGED <<batchVars, retryVars, l1, l2, enablePreRefresh, cnow, rm, fnCalls>>

\* Get, line 76, first half: `return cached, nil` stores into the results v and
\* err; err lives on the heap because the goroutine of line 67 captures it
GetReturnStore(g) ==
    /\ gets[g].pc = "return"
    /\ gets' = [gets EXCEPT ![g] = [@ EXCEPT !.pc = "copy", !.v = gets[g].cached,
                                             !.err = 0]]
    /\ UNCHANGED <<batchVars, retryVars, l1, l2, enablePreRefresh, lock, cnow, async, rm,
                   fnCalls>>

\* Get, line 76, second half: the results are copied out to the caller
GetReturnCopy(g) ==
    /\ gets[g].pc = "copy"
    /\ gets' = [gets EXCEPT ![g] = [@ EXCEPT !.pc = "done",
                                             !.ret = <<gets[g].v, gets[g].err>>]]
    /\ UNCHANGED <<batchVars, retryVars, l1, l2, enablePreRefresh, lock, cnow, async, rm,
                   fnCalls>>

\* Get, line 80 and refreshCache, lines 104-108: v, err := fn(key)
GetRefresh(g) ==
    /\ gets[g].pc = "miss"
    /\ fnCalls' = fnCalls + 1
    /\ \E ok \in BOOLEAN :
          gets' = [gets EXCEPT ![g] =
                     [@ EXCEPT !.pc = IF ok THEN "set1" ELSE "readback",
                               !.fn = IF ok THEN "ok" ELSE "failed",
                               !.val = IF ok THEN fnCalls + 1 ELSE Nil,
                               !.err = IF ok THEN 0 ELSE fnCalls + 1,
                               !.syncCalls = @ + 1]]
    /\ UNCHANGED <<batchVars, retryVars, l1, l2, enablePreRefresh, lock, cnow, async, rm>>

\* refreshCache, line 110: c.l1.Set(key, v, 0)
GetSetL1(g) ==
    /\ gets[g].pc = "set1"
    /\ l1' = [l1 EXCEPT ![gets[g].key] = CacheSet(@, gets[g].val, cnow)]
    /\ gets' = [gets EXCEPT ![g] = [@ EXCEPT !.pc = "set2"]]
    /\ UNCHANGED <<batchVars, retryVars, l2, enablePreRefresh, lock, cnow, async, rm,
                   fnCalls>>

\* refreshCache, lines 111-112: c.l2.Set(key, v, 0); return nil
GetSetL2(g) ==
    /\ gets[g].pc = "set2"
    /\ l2' = [l2 EXCEPT ![gets[g].key] = CacheSet(@, gets[g].val, cnow)]
    /\ gets' = [gets EXCEPT ![g] = [@ EXCEPT !.pc = "readback"]]
    /\ UNCHANGED <<batchVars, retryVars, l1, enablePreRefresh, lock, cnow, async, rm,
                   fnCalls>>

\* Get, lines 80-87: the cache read after the refresh, level 2 if it failed
ReadBackL1(failed) == l1
ReadBack(failed) == IF failed THEN l2 ELSE l1

\* Get, lines 83 or 86, and 89-93
GetReadBack(g) ==
    /\ gets[g].pc = "readback"
    /\ LET ch == ReadBack(gets[g].fn = "failed")[gets[g].key]
       IN  gets' = [gets EXCEPT ![g] =
                      [@ EXCEPT !.pc = "done",
                                !.cached = CacheGet(ch, cnow),
                                !.hit = CacheHit(ch, cnow),
                                !.ret = IF CacheHit(ch, cnow)
                                        THEN <<CacheGet(ch, cnow), 0>>
                                        ELSE <<Nil, Wrap(gets[g].err)>>]]
    /\ UNCHANGED <<batchVars, retryVars, l1, l2, enablePreRefresh, lock, cnow, async, rm,
                   fnCalls>>

\* goroutine of line 67, in refreshCache, lines 104-108: v, err := fn(key)
AsyncRefresh(g) ==
    /\ async[g].pc = "fn"
    /\ fnCalls' = fnCalls + 1
    /\ \E ok \in BOOLEAN :
          async' = [async EXCEPT ![g] =
                      [@ EXCEPT !.pc = IF ok THEN "set1" ELSE "assign",
                                !.val = IF ok THEN fnCalls + 1 ELSE Nil,
                                !.res = IF ok THEN 0 ELSE fnCalls + 1]]
    /\ UNCHANGED <<batchVars, retryVars, l1, l2, enablePreRefresh, lock, cnow, gets, rm>>

\* goroutine of line 67, in refreshCache, line 110
AsyncSetL1(g) ==
    /\ async[g].pc = "set1"
    /\ l1' = [l1 EXCEPT ![gets[g].key] = CacheSet(@, async[g].val, cnow)]
    /\ async' = [async EXCEPT ![g].pc = "set2"]
    /\ UNCHANGED <<batchVars, retryVars, l2, enablePreRefresh, lock, cnow, gets, rm, fnCalls>>

\* goroutine of line 67, in refreshCache, line 111
AsyncSetL2(g) ==
    /\ async[g].pc = "set2"
    /\ l2' = [l2 EXCEPT ![gets[g].key] = CacheSet(@, async[g].val, cnow)]
    /\ async' = [async EXCEPT ![g].pc = "assign"]
    /\ UNCHANGED <<batchVars, retryVars, l1, enablePreRefresh, lock, cnow, gets, rm, fnCalls>>

\* goroutine of line 67, line 69: `err = c.refreshCache(key, fn)` writes the
\* result err of the Get call that started the goroutine, unsynchronised
AsyncAssign(g) ==
    /\ async[g].pc = "assign"
    /\ gets' = [gets EXCEPT ![g] = [@ EXCEPT !.err = async[g].res]]
    /\ async' = [async EXCEPT ![g].pc = "unlock"]
    /\ UNCHANGED <<batchVars, retryVars, l1, l2, enablePreRefresh, lock, cnow, rm, fnCalls>>

\* goroutine of line 67, line 68 with unlock, lines 121-123: defer c.unlock()
AsyncUnlock(g) ==
    /\ async[g].pc = "unlock"
    /\ lock' = unlocked
    /\ async' = [async EXCEPT ![g] = NoAsync]
    /\ UNCHANGED <<batchVars, retryVars, l1, l2, enablePreRefresh, cnow, gets, rm, fnCalls>>

\* Remove(key), line 98: c.l1.Delete(key)
RemoveL1(key) ==
    /\ rm.pc = "idle"
    /\ rm.n < MaxRemoves
    /\ l1' = [l1 EXCEPT ![key] = CacheDelete(@)]
    /\ rm' = [pc |-> "l2", n |-> rm.n + 1, key |-> key]
    /\ UNCHANGED <<batchVars, retryVars, l2, enablePreRefresh, lock, cnow, gets, async,
                   fnCalls>>

\* Remove, line 99: c.l2.Delete(key)
RemoveL2 ==
    /\ rm.pc = "l2"
    /\ l2' = [l2 EXCEPT ![rm.key] = CacheDelete(@)]
    /\ rm' = [rm EXCEPT !.pc = "idle"]
    /\ UNCHANGED <<batchVars, retryVars, l1, enablePreRefresh, lock, cnow, gets, async,
                   fnCalls>>

\* a second passes
CacheClockTick ==
    /\ cnow < MaxCacheClock
    /\ cnow' = cnow + 1
    /\ UNCHANGED <<batchVars, retryVars, l1, l2, enablePreRefresh, lock, gets, async, rm,
                   fnCalls>>

\* NewFailOverCache(exp1, exp2), lines 42-53
NewFailOverCache(exp1, exp2) ==
    /\ l1 = [k \in Keys |-> NewCache(exp1)]
    /\ l2 = [k \in Keys |-> NewCache(exp2)]
    /\ enablePreRefresh = (exp1 > DefaultCachePreUpdateDuration)
    /\ lock = unlocked
    /\ cnow = 0
    /\ gets = [g \in GetIds |-> NoGet]
    /\ async = [g \in GetIds |-> NoAsync]
    /\ rm = [pc |-> "idle", n |-> 0, key |-> "none"]
    /\ fnCalls = 0

\* ----------------------------------------------------------- package retry
\* no call of the package has been made
NoRetry ==
    [pc |-> "idle", fn |-> "none", max |-> 0, mr |-> 0, err |-> 0, calls |-> 0,
     nils |-> 0, sleeps |-> 0, ret |-> -1]

\* what the k-th call of fn returns: 0 for nil, else k, the error of that call
FnResult(ok, k) == IF ok THEN 0 ELSE k

\* Simple / WithInterval, lines 10-11 and 23-24: mr := max; err := fn()
RetryStart ==
    /\ retry.pc = "idle"
    /\ \E f \in {"Simple", "WithInterval"}, m \in -1..MaxRetryMax, ok \in BOOLEAN :
          retry' = [NoRetry EXCEPT !.pc = "loop", !.fn = f, !.max = m, !.mr = m,
                                   !.err = FnResult(ok, 1), !.calls = 1,
                                   !.nils = IF ok THEN 1 ELSE 0]
    /\ UNCHANGED <<batchVars, cacheVars>>

\* lines 13-14 and 26-27: the loop test `err != nil && mr >= 0`, then mr -= 1;
\* lines 18 and 32: return err
RetryLoop ==
    /\ retry.pc = "loop"
    /\ IF retry.err # 0 /\ retry.mr >= 0
       THEN retry' = [retry EXCEPT !.mr = @ - 1,
                         !.pc = IF retry.fn = "WithInterval" THEN "sleep" ELSE "call"]
       ELSE retry' = [retry EXCEPT !.pc = "done", !.ret = retry.err]
    /\ UNCHANGED <<batchVars, cacheVars>>

\* WithInterval, line 29: time.Sleep(interval)
RetrySleep ==
    /\ retry.pc = "sleep"
    /\ retry' = [retry EXCEPT !.pc = "call", !.sleeps = @ + 1]
    /\ UNCHANGED <<batchVars, cacheVars>>

\* lines 16 and 30: err = fn()
RetryCall ==
    /\ retry.pc = "call"
    /\ \E ok \in BOOLEAN :
          retry' = [retry EXCEPT !.pc = "loop", !.calls = @ + 1,
                                 !.err = FnResult(ok, retry.calls + 1),
                                 !.nils = IF ok THEN @ + 1 ELSE @]
    /\ UNCHANGED <<batchVars, cacheVars>>

\* ------------------------------------------------------------------ Init
\* the other packages are not in use
OthersIdle == retry = NoRetry /\ NewFailOverCache(LongExp1, Exp2)

\* the queue right after NewMemoryBatchQueue(bsp, hdl, poolSize), before any call
Fresh ==
    /\ flag = 0
    /\ ingress = <<>>
    /\ partitions = << >>
    /\ workers = [w \in 1..poolSize |-> IdleWorker]
    /\ rejects = 0
    /\ now = Epoch
    /\ tasks = <<>>
    /\ calls = [c \in 1..env.calls |-> NewCall]
    /\ closeCalls = 0
    /\ closeSeen = {}
    /\ closePending = 0
    /\ ppc = "pop"
    /\ ptasks = <<>>
    /\ spc = "select"
    /\ ssnap = {}
    /\ svisited = {}
    /\ stasks = <<>>
    /\ sB = 0
    /\ si = 0
    /\ sfail = <<>>
    /\ hlog = <<>>
    /\ sfinal = -1

Init ==
    /\ env = [tasks |-> MaxTasks, pushLen |-> MaxPushLen, calls |-> MaxCalls,
              closes |-> MaxCloseCalls, rejects |-> MaxRejects,
              ticks |-> MaxClockTicks, events |-> MaxEvents, split |-> 2]
    /\ \E b \in 1..MaxBatchSize : bsp = [k \in Partitions |-> b]
    /\ poolSize = MaxPoolSize
    /\ Fresh
    /\ OthersIdle

\* ------------------------------------------------------------------ Next
Next ==
    \/ \E c \in DOMAIN calls : PushCheck(c)
    \/ \E c \in DOMAIN calls : PushEnqueue(c)
    \/ CloseRead
    \/ CloseWrite
    \/ ProducerPop
    \/ ProducerRoute
    \/ ProducerCheck
    \/ ProducerTrigger
    \/ ConsumerTick
    \/ iteratePartitions
    \/ process
    \/ ProcessRejected
    \/ ProcessFail
    \/ ProcessFailCheck
    \/ ConsumerFlag
    \/ ConsumerSetClosed
    \/ \E w \in DOMAIN workers : HandlerSetResult(w)
    \/ \E w \in DOMAIN workers : HandlerCheck(w)
    \/ \E c \in DOMAIN calls : RecvFromProducer(c)
    \/ \E c \in DOMAIN calls : RecvFromConsumer(c)
    \/ \E c \in DOMAIN calls, w \in DOMAIN workers : RecvFromWorker(c, w)
    \/ ClockTick

Spec == Init /\ [][Next]_vars

\* One caller makes one Push of up to MaxSingleLen tasks of partition "p" into
\* a fresh queue; nobody calls Close and the pool refuses nothing.
InitSingle ==
    /\ env = [tasks |-> MaxSingleLen, pushLen |-> MaxSingleLen, calls |-> 1,
              closes |-> 0, rejects |-> 0, ticks |-> MaxClockTicks,
              events |-> MaxSingleLen + MaxClockTicks, split |-> MaxSingleLen]
    /\ \E b \in 1..MaxBatchSize : bsp = [k \in Partitions |-> b]
    /\ poolSize = MaxPoolSize
    /\ Fresh
    /\ OthersIdle

NextSingle ==
    \/ PushCheck(1)
    \/ PushEnqueue(1)
    \/ ProducerPop
    \/ ProducerRoute
    \/ ProducerCheck
    \/ ProducerTrigger
    \/ ConsumerTick
    \/ iteratePartitions
    \/ process
    \/ ConsumerFlag
    \/ \E w \in DOMAIN workers : HandlerSetResult(w)
    \/ \E w \in DOMAIN workers : HandlerCheck(w)
    \/ RecvFromProducer(1)
    \/ \E w \in DOMAIN workers : RecvFromWorker(1, w)
    \/ ClockTick

SpecSingle == InitSingle /\ [][NextSingle]_vars

\* A pool of one worker or more, batch size 1 for "p" and MaxBatchSize for
\* "q"; nobody calls Close and the pool refuses nothing.  The first 0, 2 or 3
\* tasks belong to "p", the later ones to "q".
InitPools ==
    /\ \E s \in {0, 2, 3} :
          env = [tasks |-> MaxTasks + 1, pushLen |-> MaxPushLen, calls |-> MaxCalls,
                 closes |-> 0, rejects |-> 0, ticks |-> MaxClockTicks,
                 events |-> MaxEvents, split |-> s]
    /\ bsp = [k \in Partitions |-> IF k = "p" THEN 1 ELSE MaxBatchSize]
    /\ poolSize \in 1..MaxPoolSize
    /\ Fresh
    /\ OthersIdle

NextPools ==
    \/ \E c \in DOMAIN calls : PushCheck(c)
    \/ \E c \in DOMAIN calls : PushEnqueue(c)
    \/ ProducerPop
    \/ ProducerRoute
    \/ ProducerCheck
    \/ ProducerTrigger
    \/ ConsumerTick
    \/ iteratePartitions
    \/ process
    \/ ConsumerFlag
    \/ \E w \in DOMAIN workers : HandlerSetResult(w)
    \/ \E w \in DOMAIN workers : HandlerCheck(w)
    \/ \E c \in DOMAIN calls : RecvFromProducer(c)
    \/ \E c \in DOMAIN calls, w \in DOMAIN workers : RecvFromWorker(c, w)
    \/ ClockTick

SpecPools == InitPools /\ [][NextPools]_vars

\* The pool may refuse one chunk and nobody calls Close.  The first task
\* belongs to "p", whose batch size is 1, the later ones to "q", whose batch
\* size is MaxBatchSize.
InitReject ==
    /\ env = [tasks |-> MaxTasks, pushLen |-> MaxPushLen, calls |-> MaxCalls,
              closes |-> 0, rejects |-> MaxRejects, ticks |-> MaxClockTicks,
              events |-> MaxEvents, split |-> 1]
    /\ bsp = [k \in Partitions |-> IF k = "p" THEN 1 ELSE MaxBatchSize]
    /\ poolSize \in 1..MaxPoolSize
    /\ Fresh
    /\ OthersIdle

NextReject ==
    \/ \E c \in DOMAIN calls : PushCheck(c)
    \/ \E c \in DOMAIN calls : PushEnqueue(c)
    \/ ProducerPop
    \/ ProducerRoute
    \/ ProducerCheck
    \/ ProducerTrigger
    \/ ConsumerTick
    \/ iteratePartitions
    \/ process
    \/ ProcessRejected
    \/ ProcessFail
    \/ ProcessFailCheck
    \/ ConsumerFlag
    \/ \E w \in DOMAIN workers : HandlerSetResult(w)
    \/ \E w \in DOMAIN workers : HandlerCheck(w)
    \/ \E c \in DOMAIN calls : RecvFromProducer(c)
    \/ \E c \in DOMAIN calls : RecvFromConsumer(c)
    \/ \E c \in DOMAIN calls, w \in DOMAIN workers : RecvFromWorker(c, w)
    \/ ClockTick

SpecReject == InitReject /\ [][NextReject]_vars

\* Two callers push up to MaxPushLen tasks each, and Push is taken step by
\* step: Lock, one Enqueue per task, return.  Nobody calls Close and the pool
\* refuses nothing.
InitIngress ==
    /\ env = [tasks |-> 2 * MaxPushLen, pushLen |-> MaxPushLen, calls |-> MaxCalls,
              closes |-> 0, rejects |-> 0, ticks |-> 1,
              events |-> 2 * MaxPushLen, split |-> MaxPushLen]
    /\ bsp = [k \in Partitions |-> MaxBatchSize]
    /\ poolSize = MaxPoolSize
    /\ Fresh
    /\ OthersIdle

NextIngress ==
    \/ \E c \in DOMAIN calls : PushCheck(c)
    \/ \E c \in DOMAIN calls : PushLock(c)
    \/ \E c \in DOMAIN calls : PushEnqueueOne(c)
    \/ \E c \in DOMAIN calls : PushReturn(c)
    \/ ProducerPopMu
    \/ ProducerRoute
    \/ ProducerCheck
    \/ ProducerTrigger
    \/ ConsumerTick
    \/ iteratePartitions
    \/ process
    \/ ConsumerFlag
    \/ \E w \in DOMAIN workers : HandlerSetResult(w)
    \/ \E w \in DOMAIN workers : HandlerCheck(w)
    \/ \E c \in DOMAIN calls : RecvFromProducer(c)
    \/ \E c \in DOMAIN calls, w \in DOMAIN workers : RecvFromWorker(c, w)
    \/ ClockTick

SpecIngress == InitIngress /\ [][NextIngress]_vars

\* Callers change the batch sizes while the queue runs.  Up to MaxTasks + 1
\* tasks, the first three of "p"; nobody calls Close and the pool refuses
\* nothing.
InitSizes ==
    /\ env = [tasks |-> MaxTasks + 1, pushLen |-> MaxPushLen, calls |-> MaxCalls,
              closes |-> 0, rejects |-> 0, ticks |-> 1,
              events |-> MaxEvents, split |-> 3]
    /\ bsp \in [Partitions -> 1..MaxBatchSize]
    /\ poolSize = MaxPoolSize
    /\ Fresh
    /\ OthersIdle

NextSizes ==
    \/ \E c \in DOMAIN calls : PushCheck(c)
    \/ \E c \in DOMAIN calls : PushEnqueue(c)
    \/ \E k \in Partitions, n \in 1..MaxBatchSize : Set(k, n)
    \/ ProducerPop
    \/ ProducerRoute
    \/ ProducerCheck
    \/ ProducerTrigger
    \/ ConsumerTick
    \/ iteratePartitions
    \/ process
    \/ ConsumerFlag
    \/ \E w \in DOMAIN workers : HandlerSetResult(w)
    \/ \E w \in DOMAIN workers : HandlerCheck(w)
    \/ \E c \in DOMAIN calls : RecvFromProducer(c)
    \/ \E c \in DOMAIN calls, w \in DOMAIN workers : RecvFromWorker(c, w)
    \/ ClockTick

SpecSizes == InitSizes /\ [][NextSizes]_vars

\* ------------------------------------------------- one sequential caller
\* TestMemoryBatchTaskQueue, lines 185-195: one goroutine makes its Push calls
\* one after the other and then receives from their channels in call order
CallerPush(c) ==
    /\ \A d \in 1..(c - 1) : calls[d].pc \in {"wait", "fast"}
    /\ PushCheck(c)

\* every Push call has returned and the channels of the calls before c have
\* been received from
CallerAt(c) ==
    /\ \A d \in DOMAIN calls : calls[d].pc \in {"wait", "fast", "done"}
    /\ \A d \in 1..(c - 1) : calls[d].pc \in {"done", "fast"}

CallerRecvFromProducer(c) == CallerAt(c) /\ RecvFromProducer(c)

CallerRecvFromWorker(c, w) == CallerAt(c) /\ RecvFromWorker(c, w)

\* One caller pushes MaxCalls times and then receives in call order.  The
\* first task belongs to "p", the later ones to "q"; nobody calls Close and
\* the pool refuses nothing.
InitCaller ==
    /\ env = [tasks |-> MaxTasks, pushLen |-> MaxPushLen, calls |-> MaxCalls,
              closes |-> 0, rejects |-> 0, ticks |-> MaxClockTicks,
              events |-> MaxEvents, split |-> 1]
    /\ bsp \in [Partitions -> 1..MaxBatchSize]
    /\ poolSize \in 1..MaxPoolSize
    /\ Fresh
    /\ OthersIdle

NextCaller ==
    \/ \E c \in DOMAIN calls : CallerPush(c)
    \/ \E c \in DOMAIN calls : PushEnqueue(c)
    \/ ProducerPop
    \/ ProducerRoute
    \/ ProducerCheck
    \/ ProducerTrigger
    \/ ConsumerTick
    \/ iteratePartitions
    \/ process
    \/ ConsumerFlag
    \/ \E w \in DOMAIN workers : HandlerSetResult(w)
    \/ \E w \in DOMAIN workers : HandlerCheck(w)
    \/ \E c \in DOMAIN calls : CallerRecvFromProducer(c)
    \/ \E c \in DOMAIN calls, w \in DOMAIN workers : CallerRecvFromWorker(c, w)
    \/ ClockTick

SpecCaller == InitCaller /\ [][NextCaller]_vars

\* The caller of the first Push call never receives from its channel; the
\* callers of the later calls do.  The first task belongs to "p", the later
\* ones to "q"; the pool may refuse a chunk and nobody calls Close.
InitAbandon ==
    /\ env = [tasks |-> MaxTasks, pushLen |-> MaxPushLen, calls |-> MaxCalls,
              closes |-> 0, rejects |-> MaxRejects, ticks |-> 1,
              events |-> MaxEvents, split |-> 1]
    /\ bsp \in [Partitions -> 1..MaxBatchSize]
    /\ poolSize \in 1..MaxPoolSize
    /\ Fresh
    /\ OthersIdle

NextAbandon ==
    \/ \E c \in DOMAIN calls : PushCheck(c)
    \/ \E c \in DOMAIN calls : PushEnqueue(c)
    \/ ProducerPop
    \/ ProducerRoute
    \/ ProducerCheck
    \/ ProducerTrigger
    \/ ConsumerTick
    \/ iteratePartitions
    \/ process
    \/ ProcessRejected
    \/ ProcessFail
    \/ ProcessFailCheck
    \/ ConsumerFlag
    \/ \E w \in DOMAIN workers : HandlerSetResult(w)
    \/ \E w \in DOMAIN workers : HandlerCheck(w)
    \/ \E c \in (DOMAIN calls) \ {1} : RecvFromProducer(c)
    \/ \E c \in (DOMAIN calls) \ {1} : RecvFromConsumer(c)
    \/ \E c \in (DOMAIN calls) \ {1}, w \in DOMAIN workers : RecvFromWorker(c, w)
    \/ ClockTick

SpecAbandon == InitAbandon /\ [][NextAbandon]_vars

\* The provider returns any size from 0 - MaxNegSize to MaxBatchSize, per
\* partition.  One caller or two, up to MaxTasks tasks, the first two of "p";
\* nobody calls Close and the pool refuses nothing.
InitAnySize ==
    /\ env = [tasks |-> MaxTasks, pushLen |-> MaxPushLen, calls |-> MaxCalls,
              closes |-> 0, rejects |-> 0, ticks |-> 1,
              events |-> MaxEvents, split |-> 2]
    /\ bsp \in [Partitions -> (0 - MaxNegSize)..MaxBatchSize]
    /\ poolSize = MaxPoolSize
    /\ Fresh
    /\ OthersIdle

SpecAnySize == InitAnySize /\ [][NextPools]_vars

\* pkg/batch with no caller: a fresh queue nobody pushes to or closes
BatchUnused ==
    /\ env = [tasks |-> 0, pushLen |-> 0, calls |-> 0, closes |-> 0, rejects |-> 0,
              ticks |-> 0, events |-> 0, split |-> 0]
    /\ bsp = [k \in Partitions |-> 1]
    /\ poolSize = 1
    /\ Fresh

\* one call of retry.Simple or retry.WithInterval
InitRetry ==
    /\ BatchUnused
    /\ NewFailOverCache(LongExp1, Exp2)
    /\ retry = NoRetry

NextRetry ==
    \/ RetryStart
    \/ RetryLoop
    \/ RetrySleep
    \/ RetryCall

SpecRetry == InitRetry /\ [][NextRetry]_vars

\* a FailOverCache used by concurrent Get calls and a Remove, all for the key
\* "a", with refresh functions that succeed or fail
InitCache ==
    /\ BatchUnused
    /\ retry = NoRetry
    /\ \E exp1 \in {ShortExp1, LongExp1} : NewFailOverCache(exp1, Exp2)

NextCache ==
    \/ \E g \in GetIds :
          \/ GetL1(g, "a")
          \/ GetHit(g)
          \/ GetReturnStore(g)
          \/ GetReturnCopy(g)
          \/ GetRefresh(g)
          \/ GetSetL1(g)
          \/ GetSetL2(g)
          \/ GetReadBack(g)
          \/ AsyncRefresh(g)
          \/ AsyncSetL1(g)
          \/ AsyncSetL2(g)
          \/ AsyncAssign(g)
          \/ AsyncUnlock(g)
    \/ RemoveL1("a")
    \/ RemoveL2
    \/ CacheClockTick

SpecCache == InitCache /\ [][NextCache]_vars

\* A FailOverCache that holds both keys in both levels, stored at second 0 by
\* earlier Get calls whose refresh functions returned 1 and 2, used by
\* concurrent Get calls for either key, with refresh functions that succeed or
\* fail
InitPreRefresh ==
    /\ BatchUnused
    /\ retry = NoRetry
    /\ l1 = [k \in Keys |-> CacheSet(NewCache(LongExp1), IF k = "a" THEN 1 ELSE 2, 0)]
    /\ l2 = [k \in Keys |-> CacheSet(NewCache(Exp2), IF k = "a" THEN 1 ELSE 2, 0)]
    /\ enablePreRefresh = (LongExp1 > DefaultCachePreUpdateDuration)
    /\ lock = unlocked
    /\ cnow = 0
    /\ gets = [g \in GetIds |-> NoGet]
    /\ async = [g \in GetIds |-> NoAsync]
    /\ rm = [pc |-> "idle", n |-> 0, key |-> "none"]
    /\ fnCalls = Cardinality(Keys)

NextPreRefresh ==
    \/ \E g \in GetIds :
          \/ \E k \in Keys : GetL1(g, k)
          \/ GetHit(g)
          \/ GetReturnStore(g)
          \/ GetReturnCopy(g)
          \/ GetRefresh(g)
          \/ GetSetL1(g)
          \/ GetSetL2(g)
          \/ GetReadBack(g)
          \/ AsyncRefresh(g)
          \/ AsyncSetL1(g)
          \/ AsyncSetL2(g)
          \/ AsyncAssign(g)
          \/ AsyncUnlock(g)
    \/ CacheClockTick

SpecPreRefresh == InitPreRefresh /\ [][NextPreRefresh]_vars

\* Fair scheduling: every goroutine that can take its next step takes it (the
\* Go scheduler starves no runnable goroutine), the ticker keeps firing, every
\* caller receives from its channel, and the consumer, back in its select
\* again and again, takes the producer's pending trigger.  Nothing obliges
\* the environment to push, to call Close, to refuse a chunk or to let time
\* pass.
FairSpec ==
    /\ Spec
    /\ \A c \in 1..MaxCalls : WF_vars(PushEnqueue(c))
    /\ WF_vars(CloseWrite)
    /\ WF_vars(ProducerPop)
    /\ WF_vars(ProducerRoute)
    /\ WF_vars(ProducerCheck)
    /\ SF_vars(ProducerTrigger)
    /\ WF_vars(ConsumerTick)
    /\ WF_vars(iteratePartitions)
    /\ WF_vars(process)
    /\ WF_vars(ProcessFail)
    /\ WF_vars(ProcessFailCheck)
    /\ WF_vars(ConsumerFlag)
    /\ WF_vars(ConsumerSetClosed)
    /\ \A w \in 1..MaxPoolSize : WF_vars(HandlerSetResult(w))
    /\ \A w \in 1..MaxPoolSize : WF_vars(HandlerCheck(w))
    /\ \A c \in 1..MaxCalls : WF_vars(RecvFromProducer(c))
    /\ \A c \in 1..MaxCalls : WF_vars(RecvFromConsumer(c))
    /\ \A c \in 1..MaxCalls, w \in 1..MaxPoolSize : WF_vars(RecvFromWorker(c, w))

\* ------------------------------------------------------ observations
\* the calls Push accepted: their tasks were enqueued
Accepted == {c \in DOMAIN calls : calls[c].pc \in {"wait", "done"}}

\* the tasks held by some partition queue
InPartitions == UNION {Range(partitions[k].q) : k \in DOMAIN partitions}

\* the places of hlog that hold task t
HandedAt(t) ==
    {x \in (1..Len(hlog)) \X (1..MaxSingleLen + 1) :
        /\ x[2] <= Len(hlog[x[1]].chunk)
        /\ hlog[x[1]].chunk[x[2]] = t}

\* task t is in a chunk a worker is running and its setter has not been called
InWorker(t) ==
    \E w \in DOMAIN workers :
        /\ workers[w].pc = "set"
        /\ \E j \in workers[w].i..Len(workers[w].chunk) : workers[w].chunk[j] = t

\* ------------------------------------------------------------ claims
\* C1: for every accepted Push of N > 0 tasks the channel is offered a value
\* only after all N tasks are terminal, is offered exactly one value, and the
\* value is N.
C1_OneValueN ==
    \A c \in Accepted :
        /\ calls[c].sends <= 1
        /\ calls[c].sends > 0 => \A t \in Range(calls[c].args) : tasks[t].cb >= 1
        /\ \A i \in 1..Len(calls[c].got) : calls[c].got[i] = calls[c].n

\* C2: every task of an accepted Push has its completion callback invoked
\* exactly once, eventually, also when Close() follows the Push.  Stated on
\* finite runs: no callback is invoked twice, and once both loops have exited
\* every accepted task is terminal or in a chunk a worker is running (a task
\* still in a buffer then is never completed).
C2_EveryTaskCompletes ==
    /\ \A t \in TaskIds : tasks[t].cb <= 1
    /\ (ppc = "done" /\ spc = "done") =>
           \A t \in TaskIds : tasks[t].fin # 0 => (tasks[t].cb = 1 \/ InWorker(t))

\* C3: when the consumer loop has terminated every partition queue is empty.
C3_DrainedWhenClosed ==
    spc = "done" => \A k \in DOMAIN partitions : partitions[k].q = <<>>

\* C4: no task is in more than one chunk handed to the handler (nor twice in
\* one), and a task failed with the admission timeout or a dispatch error is
\* in none.
C4_AtMostOneExecution ==
    \A t \in TaskIds :
        /\ Cardinality(HandedAt(t)) <= 1
        /\ tasks[t].err \in {ErrorTimedOut, ErrPoolRejected} => HandedAt(t) = {}

\* C4 witness: one task ran in the handler, one timed out at admission and one
\* was in a chunk the pool refused.
C4_Witness ==
    /\ \E t \in TaskIds : HandedAt(t) # {} /\ tasks[t].result
    /\ \E t \in TaskIds : tasks[t].err = ErrorTimedOut
    /\ \E t \in TaskIds : tasks[t].err = ErrPoolRejected

\* C5: after Close() has been called, with fair scheduling and callers that
\* receive, Closed() eventually returns true.
C5_EventuallyClosed == (closeCalls > 0) ~> Closed

\* C6: q.flag only moves Open -> AboutToClose -> Closing -> Closed, one step
\* at a time, and stays Closed.
C6_Lifecycle == [][flag' = flag \/ (flag < FlagClosed /\ flag' = flag + 1)]_vars

\* C7: Push with zero tasks, in any lifecycle state, returns a buffered channel
\* holding 0 and leaves the ingress queue, the partition queues and q.flag
\* unchanged.
C7_ZeroPush ==
    [][\A c \in DOMAIN calls :
          (calls[c].pc = "idle" /\ calls'[c].pc # "idle" /\ calls'[c].args = <<>>)
          => /\ calls'[c].pc = "fast"
             /\ calls'[c].buf = <<0>>
             /\ ingress' = ingress
             /\ partitions' = partitions
             /\ flag' = flag]_vars

\* C7 witness: a zero-task Push returned while the queue was open and another
\* after it was Closed.
C7_Witness ==
    /\ \E c \in DOMAIN calls :
          calls[c].pc = "fast" /\ calls[c].args = <<>> /\ calls[c].seen = 0
    /\ \E c \in DOMAIN calls :
          calls[c].pc = "fast" /\ calls[c].args = <<>> /\ calls[c].seen = FlagClosed

\* C8: Push with N > 0 tasks that reads the state Closing or Closed returns a
\* channel holding 0, enqueues none of its tasks, binds no closure, and none of
\* the tasks reaches the handler.
C8_RefusedPush ==
    \A c \in DOMAIN calls :
        (calls[c].args # <<>> /\ calls[c].seen >= FlagClosing) =>
            /\ calls[c].pc = "fast"
            /\ calls[c].buf = <<0>>
            /\ \A t \in Range(calls[c].args) :
                  /\ tasks[t].fin = 0
                  /\ tasks[t].cb = 0
                  /\ t \notin Range(ingress)
                  /\ t \notin Range(ptasks)
                  /\ t \notin InPartitions
                  /\ HandedAt(t) = {}

\* C8 witness: a Push of two tasks was refused in Closing.
C8_Witness ==
    \E c \in DOMAIN calls :
        calls[c].pc = "fast" /\ Len(calls[c].args) = 2 /\ calls[c].seen = FlagClosing

\* the tasks of call c whose closure has run
Finished(c) == {t \in Range(calls[c].args) : tasks[t].cb > 0}

\* C9: a task that is timed out when the producer examines it is in no
\* partition queue and in no chunk of the handler, has had
\* SetError(ErrorTimedOut) called exactly once, and is counted by its call's
\* finished counter.
C9_TimedOut ==
    \A t \in TaskIds :
        tasks[t].err = ErrorTimedOut =>
            /\ t \notin InPartitions
            /\ HandedAt(t) = {}
            /\ tasks[t].cb = 1
            /\ ~tasks[t].result
            /\ calls[tasks[t].fin].finished = Cardinality(Finished(tasks[t].fin))

\* C9 witness: a call of two tasks got its value 2 with one task timed out and
\* the other run by the handler.
C9_Witness ==
    \E c \in DOMAIN calls :
        /\ calls[c].got = <<2>>
        /\ \E t \in Range(calls[c].args) : tasks[t].err = ErrorTimedOut
        /\ \E t \in Range(calls[c].args) : tasks[t].result

\* ceil(l / b)
CeilDiv(l, b) == (l + b - 1) \div b

\* the chunks C10 expects of a submission ts at batch size b: consecutive
\* slices of b tasks and a last one of Len(ts) - b * (ceil(Len(ts) / b) - 1)
ExpectedChunks(ts, b) ==
    [j \in 1..CeilDiv(Len(ts), b) |->
        SubSeq(ts, b * (j - 1) + 1,
               IF j < CeilDiv(Len(ts), b) THEN b * j
               ELSE b * (j - 1) + (Len(ts) - b * (CeilDiv(Len(ts), b) - 1)))]

HandledChunks == [j \in 1..Len(hlog) |-> hlog[j].chunk]

\* the single Push was accepted, none of its tasks timed out and every one of
\* them has been handed to the handler
SingleAllHanded ==
    /\ calls[1].pc \in {"wait", "done"}
    /\ \A t \in Range(calls[1].args) :
          tasks[t].err # ErrorTimedOut /\ HandedAt(t) # {}

\* C10 as claimed: a single Push of L tasks of p into an idle queue results in
\* handler chunks that are exactly the consecutive slices of sizes B, ..., B
\* and L - B * (ceil(L / B) - 1).
C10_ChunksOfSinglePush ==
    SingleAllHanded => HandledChunks = ExpectedChunks(calls[1].args, bsp["p"])

\* the sizes of the chunks process cuts from l tasks at batch size b
ProcessSizes(l, b) ==
    [j \in 1..NumChunks(l, b) |-> Len(Chunk([x \in 1..l |-> x], b, j - 1))]

\* C10 amended: the chunks are those slices when one consumer pass flushes the
\* whole submission; in every case each chunk has between 1 and B tasks, and
\* the chunks, in order, make up a prefix of the submission.  20 tasks at
\* batch size 8 are cut into 8, 8, 4.
C10_ChunksOfOnePass ==
    /\ (SingleAllHanded /\ hlog[1].of = Len(calls[1].args))
           => HandledChunks = ExpectedChunks(calls[1].args, bsp["p"])
    /\ (\A t \in TaskIds : tasks[t].err # ErrorTimedOut) =>
           /\ \A j \in 1..Len(hlog) :
                 /\ Len(hlog[j].chunk) \in 1..bsp["p"]
                 /\ \A x \in 1..Len(hlog[j].chunk) :
                       hlog[j].chunk[x] =
                           calls[1].args[x + Cardinality(UNION
                               {Range(hlog[h].chunk) : h \in 1..(j - 1)})]
    /\ ProcessSizes(20, 8) = <<8, 8, 4>>

\* C10 witness: one pass flushed a submission of more than two chunks whose
\* last chunk is not full, and all of it was handed to the handler.
C10_Witness ==
    /\ SingleAllHanded
    /\ hlog[1].of = Len(calls[1].args)
    /\ Len(hlog) > 2
    /\ Len(hlog[Len(hlog)].chunk) < bsp["p"]

\* partition k holds exactly one task and its batch size is greater than 1
LoneIn(k) ==
    /\ k \in DOMAIN partitions
    /\ Len(partitions[k].q) = 1
    /\ partitionBatchSize(k) > 1

\* the consumer waits for something that never comes: it sends on the channel
\* of a call that has received its value, or it is in Invoke while every
\* worker of the pool sends on such a channel
ConsumerBlockedForever ==
    \/ /\ spc = "send"
       /\ calls[tasks[Head(sfail)].fin].pc = "done"
    \/ /\ spc = "invoke"
       /\ \A w \in DOMAIN workers :
             /\ workers[w].pc = "send"
             /\ calls[tasks[WorkerTask(w)].fin].pc = "done"

\* C11: a task admitted alone into an empty partition queue of batch size > 1
\* has its age counted from its admission; a consumer pass that visits the
\* partition flushes it exactly when its age exceeds the wait threshold; and
\* while the queue is open the consumer is never blocked for good, so such a
\* pass eventually runs.
C11_LoneTaskFlushedOnAge ==
    /\ [][\A k \in Partitions :
            /\ ( /\ k \in DOMAIN partitions => partitions[k].q = <<>>
                 /\ k \in DOMAIN partitions'
                 /\ Len(partitions'[k].q) = 1 )
               => partitions'[k].firstQueued = now
            /\ (LoneIn(k) /\ spc = "range" /\ k \notin svisited /\ k \in svisited')
               => ( (partitions'[k].q = <<>>)
                    <=> (now - partitions[k].firstQueued > DefaultTaskWaitDuration) )
         ]_vars
    /\ [](\A k \in Partitions : (LoneIn(k) /\ flag = 0) => ~ConsumerBlockedForever)

\* task t has left its partition queue in a flush
Flushed(t) ==
    \/ t \in Range(stasks)
    \/ t \in Range(sfail)
    \/ HandedAt(t) # {}
    \/ tasks[t].err = ErrPoolRejected

\* task t has entered q.q and is still on its way to a flush
Waiting(t) ==
    \/ t \in Range(ingress)
    \/ t \in Range(ptasks) /\ tasks[t].err = NoError
    \/ t \in InPartitions

\* s holds t before u
Before(s, t, u) == \E i, j \in 1..Len(s) : i < j /\ s[i] = t /\ s[j] = u

\* the handler was given t before u: in an earlier chunk or earlier in one chunk
HandedBefore(t, u) ==
    \E x \in HandedAt(t), y \in HandedAt(u) :
        x[1] < y[1] \/ (x[1] = y[1] /\ x[2] < y[2])

\* C12: of two tasks of one partition, the one that entered q.q first is
\* flushed in the same or an earlier flush and has the earlier place in the
\* flush and in its chunks.
C12_PartitionFIFO ==
    \A t, u \in Entered :
        ( /\ tasks[t].partition = tasks[u].partition
          /\ tasks[t].seq < tasks[u].seq
          /\ Flushed(u) )
        => /\ ~Waiting(t)
           /\ (t \in Range(stasks) /\ u \in Range(stasks)) => Before(stasks, t, u)
           /\ (HandedAt(t) # {} /\ HandedAt(u) # {}) => HandedBefore(t, u)
           /\ (HandedAt(u) # {} /\ t \in Range(stasks)) => Before(stasks, t, u)

\* C12 witness: two calls pushed tasks of one partition concurrently, the call
\* that built its tasks later entered q.q first, and the handler got both
\* tasks in one chunk.
C12_Witness ==
    \E t, u \in Entered :
        /\ tasks[t].partition = tasks[u].partition
        /\ tasks[t].seq < tasks[u].seq
        /\ u < t
        /\ \E j \in 1..Len(hlog) : Before(hlog[j].chunk, t, u)

\* the handler got t and u in one chunk
SameChunk(t, u) ==
    \E j \in 1..Len(hlog) : t \in Range(hlog[j].chunk) /\ u \in Range(hlog[j].chunk)

\* C13 as claimed: of two tasks of one partition, the completion callback of
\* the one submitted first is invoked before that of the other.
C13_CompletionFIFO ==
    [][\A t \in TaskIds :
          tasks'[t].cb > tasks[t].cb =>
              \A u \in Entered :
                  (tasks[u].partition = tasks[t].partition /\ tasks[u].seq < tasks[t].seq)
                  => tasks[u].cb >= 1]_vars

\* C13 amended: of two tasks of one partition that the handler gets in one
\* chunk, or that it gets in any chunks of a pool of one worker, the
\* completion callback of the one submitted first is invoked first.
C13_CompletionOrderInChunk ==
    [][\A t \in TaskIds :
          (tasks'[t].cb > tasks[t].cb /\ HandedAt(t) # {}) =>
              \A u \in Entered :
                  ( /\ tasks[u].partition = tasks[t].partition
                    /\ tasks[u].seq < tasks[t].seq
                    /\ HandedAt(u) # {}
                    /\ (SameChunk(u, t) \/ poolSize = 1) )
                  => tasks[u].cb >= 1]_vars

\* C13 witness: a pool of one worker has run two tasks of "p" in two chunks
\* and two tasks of "q" in one chunk.
C13_Witness ==
    /\ poolSize = 1
    /\ \E t, u \in Entered :
          /\ t # u /\ tasks[t].partition = "p" /\ tasks[u].partition = "p"
          /\ tasks[t].result /\ tasks[u].result /\ ~SameChunk(t, u)
    /\ \E t, u \in Entered :
          /\ t # u /\ tasks[t].partition = "q" /\ tasks[u].partition = "q"
          /\ tasks[t].result /\ tasks[u].result /\ SameChunk(t, u)

\* what the queue buffers: q.q, the popped tasks, the partition queues, the
\* tasks being dispatched
Buffers == <<ingress, ptasks, partitions, stasks, sfail>>

\* C14: a Close call that reads Open sets the state AboutToClose; a Close call
\* that reads AboutToClose, Closing or Closed writes nothing; no Close call
\* changes a buffer.  (Close has no other outcome: it returns nil.)
C14_CloseEffect ==
    [][/\ closeCalls' # closeCalls =>
            /\ flag' = flag
            /\ Buffers' = Buffers
            /\ closePending' = IF flag = 0 THEN closePending + 1 ELSE closePending
       /\ closePending' < closePending =>
            /\ flag' = FlagAboutToClose
            /\ Buffers' = Buffers
       /\ closePending' # closePending =>
            (closeCalls' # closeCalls \/ closePending' < closePending)]_vars

\* C14 witness: one Close call read Open, another read Closing, and both have
\* returned.
C14_Witness ==
    /\ closeSeen = {0, FlagClosing}
    /\ closeCalls = 2
    /\ closePending = 0

\* the byte map number of Push's doc comment: 1<<n - 1
Bitmap(n) == 2 ^ n - 1

\* C15: once all n tasks of a submission are processed, the value the channel
\* yields is the bitmap number (1<<n)-1.
C15_BitmapValue ==
    \A c \in Accepted :
        \A i \in 1..Len(calls[c].got) : calls[c].got[i] = Bitmap(calls[c].n)

\* C16: a Get whose level 1 read hits returns the cached value with a nil error
\* and never calls the refresh function itself; it starts the asynchronous
\* refresh only if pre-refresh is enabled and the entry's remaining time is
\* below DefaultCachePreUpdateDuration.
C16_HitReturnsCached ==
    \A g \in GetIds :
        gets[g].first = "hit" =>
            /\ gets[g].syncCalls = 0
            /\ gets[g].pc = "done" => gets[g].ret = <<gets[g].cached, 0>>
            /\ gets[g].spawned =>
                  /\ enablePreRefresh
                  /\ gets[g].remaining < DefaultCachePreUpdateDuration

\* C17: a Get whose level 1 read misses calls the refresh function exactly
\* once; if the call succeeds its value is stored in level 1 and in level 2 and
\* is returned with a nil error.
C17_MissRefreshesOnce ==
    /\ [][\A g \in GetIds :
            /\ (gets[g].pc = "set1" /\ gets'[g].pc = "set2") =>
                  CacheHit(l1'[gets[g].key], cnow) /\ l1'[gets[g].key].val = gets[g].val
            /\ (gets[g].pc = "set2" /\ gets'[g].pc = "readback") =>
                  CacheHit(l2'[gets[g].key], cnow) /\ l2'[gets[g].key].val = gets[g].val]_vars
    /\ [](\A g \in GetIds :
            gets[g].first = "miss" =>
                /\ gets[g].syncCalls = IF gets[g].pc = "miss" THEN 0 ELSE 1
                /\ (gets[g].pc = "done" /\ gets[g].fn = "ok") =>
                      gets[g].ret = <<gets[g].val, 0>>)

\* C18: a Get whose level 1 read misses and whose refresh function fails
\* returns level 2's value with a nil error when level 2 holds the key, and nil
\* with a non-nil error when it does not; none of its steps modifies level 1
\* or level 2.
C18_FailedRefreshFallsBack ==
    [][\A g \in GetIds :
          (gets'[g] # gets[g] /\ gets'[g].first = "miss" /\ gets'[g].fn = "failed") =>
              /\ l1' = l1
              /\ l2' = l2
              /\ gets'[g].syncCalls = 1
              /\ gets'[g].pc = "done" =>
                    IF CacheHit(l2[gets[g].key], cnow)
                    THEN gets'[g].ret = <<l2[gets[g].key].val, 0>>
                    ELSE gets'[g].ret[1] = Nil /\ gets'[g].ret[2] # 0]_vars

\* a failed refresh answered from level 2
C18_Witness ==
    \E g \in GetIds :
        /\ gets[g].pc = "done"
        /\ gets[g].first = "miss"
        /\ gets[g].fn = "failed"
        /\ gets[g].ret[1] # Nil
        /\ gets[g].ret[2] = 0
        /\ ~CacheHit(l1[gets[g].key], cnow)

\* C19: Simple and WithInterval call fn once and retry it at most max times
\* (at most max + 1 calls for max >= 0), stop at the first call that returns
\* nil and return nil then, and otherwise return the error of the last call.
C19_AtMostMaxRetries ==
    /\ retry.max >= 0 => retry.calls <= retry.max + 1
    /\ retry.nils <= 1
    /\ retry.nils = 1 => retry.err = 0
    /\ retry.pc = "done" =>
          /\ retry.ret = retry.err
          /\ retry.err # 0 => retry.err = retry.calls

\* the goroutines standing in `finishC <- int64(finished)` on the channel of
\* Push call c
SendersOn(c) ==
    {g \in {<<"producer", 0>>, <<"consumer", 0>>}
           \cup {<<"worker", w>> : w \in DOMAIN workers} :
        CASE g[1] = "producer" -> ppc = "send" /\ tasks[Head(ptasks)].fin = c
          [] g[1] = "consumer" -> spc = "send" /\ tasks[Head(sfail)].fin = c
          [] OTHER -> workers[g[2]].pc = "send" /\ tasks[WorkerTask(g[2])].fin = c}

\* C20: whatever the interleaving of a submission's completion callbacks, at
\* most one goroutine ever stands in a send on the submission's channel, and
\* once the caller has received its value no goroutine is blocked on it.
C20_SingleSend ==
    \A c \in Accepted :
        /\ Cardinality(SendersOn(c)) <= 1
        /\ calls[c].pc = "done" => SendersOn(c) = {}

\* the consumer is inside a call of iteratePartitions
InPass == spc \in {"range", "invoke", "fail", "failcheck", "send"}

\* the calls of iteratePartitions begun after the consumer first read
\* FlagClosing that have returned
FinalPassesDone ==
    IF sfinal < 0 THEN 0 ELSE IF InPass THEN sfinal - 1 ELSE sfinal

\* C21: whenever q.flag is FlagClosed (Closed() returns true) the consumer has
\* completed a full iteration over the partitions that began after it read
\* FlagClosing.
C21_ClosedAfterFinalPass == flag = FlagClosed => FinalPassesDone >= 1

\* C22: whenever q.flag is FlagClosing or FlagClosed, q.q holds no task.
C22_IngressEmptyWhenClosing == flag \in {FlagClosing, FlagClosed} => ingress = <<>>

\* C23: after the consumer has read FlagClosing it calls iteratePartitions
\* exactly once more and leaves its loop: never a second call, and one call
\* has been made when the loop is left.
C23_OneFinalPass ==
    /\ sfinal <= 1
    /\ spc = "done" => sfinal = 1

\* the consumer's step is Range's callback on key k
Visits(k) == spc = "range" /\ k \in svisited' /\ k \notin svisited

\* the age of the oldest task of a non-empty partition queue
OldestAge(pq) == now - tasks[Head(pq.q)].queued

\* the flush triggers of C24 for a queue and its batch size n
Triggered(pq, n) ==
    /\ Len(pq.q) >= 1
    /\ Len(pq.q) >= n \/ OldestAge(pq) > DefaultTaskWaitDuration

C25_MaybePopFrame ==
    [][\A k \in DOMAIN partitions :
          (/\ Visits(k)
           /\ 0 < Len(partitions[k].q)
           /\ Len(partitions[k].q) < partitionBatchSize(k)
           /\ OldestAge(partitions[k]) <= DefaultTaskWaitDuration) =>
              /\ stasks' = <<>>
              /\ spc' = "range"
              /\ partitions'[k].q = partitions[k].q
              /\ partitions'[k].firstQueued = partitions[k].firstQueued]_vars

\* the consumer has visited a queue that has held a task since it was created,
\* holds fewer than its batch size and whose oldest task is young: nothing
\* has ever been flushed
C25_Witness ==
    /\ spc = "range"
    /\ hlog = <<>>
    /\ rejects = 0
    /\ \E k \in svisited \cap ssnap :
          /\ 0 < Len(partitions[k].q)
          /\ Len(partitions[k].q) < partitionBatchSize(k)
          /\ OldestAge(partitions[k]) = DefaultTaskWaitDuration

\* partition queue k before a step; a queue not yet stored is a new one
QueueBefore(k) == IF k \in DOMAIN partitions THEN partitions[k] ELSE newPartitionQueue

\* C26: firstQueued is 0 exactly when the partition queue is empty; a push to
\* a non-empty queue leaves it unchanged, a push to an empty queue sets it to
\* the current time, and only a flush sets it back to 0.
C26_FirstQueued ==
    /\ [][\A k \in DOMAIN partitions' :
            /\ Len(partitions'[k].q) = Len(QueueBefore(k).q) + 1 =>
                  partitions'[k].firstQueued =
                      IF QueueBefore(k).q # <<>> THEN QueueBefore(k).firstQueued ELSE now
            /\ (QueueBefore(k).firstQueued # 0 /\ partitions'[k].firstQueued = 0) =>
                  Visits(k) /\ stasks' = QueueBefore(k).q]_vars
    /\ [](\A k \in DOMAIN partitions :
            partitions[k].firstQueued = 0 <=> partitions[k].q = <<>>)

\* a queue holds two tasks pushed at different times and still carries the
\* time of the first push
C26_Witness ==
    \E k \in DOMAIN partitions :
        /\ Len(partitions[k].q) >= 2
        /\ partitions[k].firstQueued = tasks[partitions[k].q[1]].queued
        /\ tasks[partitions[k].q[2]].queued > partitions[k].firstQueued

RECURSIVE Concat(_)
\* the concatenation of a sequence of sequences
Concat(ss) == IF ss = <<>> THEN <<>> ELSE Head(ss) \o Concat(Tail(ss))

\* the chunks of the last n handler invocations, in order
LastChunks(log, n) == [j \in 1..n |-> log[Len(log) - n + j].chunk]

\* C27: process(tasks, B) with L = len(tasks) >= 1 and B >= 1 submits exactly
\* ceil(L / B) chunks, in order; every chunk but the last has B tasks, the
\* last has between 1 and B, and the chunks concatenated are tasks.  Stated on
\* the step that ends the call, for a pool that accepts every chunk: the
\* chunks submitted are then the handler's invocations.
C27_ProcessChunks ==
    [][(spc = "invoke" /\ spc' = "range") =>
          LET n == CeilDiv(Len(stasks), sB)
              cs == LastChunks(hlog', n)
          IN  /\ Len(stasks) >= 1 /\ sB >= 1
              /\ si + 1 = n
              /\ Len(hlog') >= n
              /\ \A j \in 1..(n - 1) : Len(cs[j]) = sB
              /\ Len(cs[n]) \in 1..sB
              /\ Concat(cs) = stasks]_vars

\* a call of process that cut five tasks into chunks of 2, 2 and 1 has returned
C27_Witness ==
    /\ spc = "range"
    /\ Len(hlog) = 3
    /\ \A j \in 1..3 : hlog[j].of = MaxSingleLen
    /\ Len(hlog[3].chunk) = 1
    /\ Len(hlog[1].chunk) = MaxBatchSize

\* the chunk process is submitting, or failing after the pool refused it
CurrentChunk == Chunk(stasks, sB, si)

\* the consumer, failing a refused chunk, stands in a send on the channel of a
\* call that has already received its value: it never leaves process
StuckFailing ==
    /\ spc = "send"
    /\ calls[tasks[Head(sfail)].fin].pc = "done"

\* C28: when the pool refuses a chunk, SetError(err) is called exactly once on
\* every task of the chunk, none of them is handed to the handler or put back
\* into a partition queue, and process goes on to submit the flush's remaining
\* chunks.
C28_RefusedChunkFailed ==
    /\ [][(spc \in {"failcheck", "send"} /\ spc' \notin {"fail", "failcheck", "send"}) =>
            /\ \A t \in Range(CurrentChunk) :
                  tasks'[t].err = ErrPoolRejected /\ tasks'[t].cb = 1
            /\ IF si + 1 < CeilDiv(Len(stasks), sB)
               THEN spc' = "invoke" /\ si' = si + 1 /\ stasks' = stasks
               ELSE spc' = "range"]_vars
    /\ [](/\ \A t \in TaskIds :
               tasks[t].err = ErrPoolRejected =>
                   /\ tasks[t].cb = 1
                   /\ HandedAt(t) = {}
                   /\ t \notin InPartitions
          /\ StuckFailing => (Len(sfail) = 1 /\ si + 1 = CeilDiv(Len(stasks), sB)))

\* C29: every handler invocation receives a non-empty chunk, all of whose
\* tasks have the partition key passed as the handler's first argument, and
\* which is no longer than the batch size the consumer read for that partition
\* in the pass that flushed it.
C29_HandlerChunk ==
    [][Len(hlog') = Len(hlog) + 1 =>
          LET e == hlog'[Len(hlog')]
          IN  /\ e.chunk # <<>>
              /\ \A x \in 1..Len(e.chunk) : tasks[e.chunk[x]].partition = e.partition
              /\ Len(e.chunk) <= sB
              /\ sB = bsp[e.partition]
              /\ \E w \in DOMAIN workers : workers'[w].chunk = e.chunk]_vars

\* the handler has been invoked with a full chunk of "q" and with a chunk of "p"
C29_Witness ==
    /\ \E j \in 1..Len(hlog) :
          hlog[j].partition = "q" /\ Len(hlog[j].chunk) = MaxBatchSize
    /\ \E j \in 1..Len(hlog) : hlog[j].partition = "p"

\* C30: the tasks of one Push call enter q.q one after the other and in
\* argument order, with no task of another call between them, and no task of
\* a call that is still enqueuing has left q.q.
C30_PushContiguous ==
    /\ \A c \in DOMAIN calls :
          \A i, j \in Enqueued(c) :
              tasks[calls[c].args[j]].seq - tasks[calls[c].args[i]].seq = j - i
    /\ \A c \in DOMAIN calls :
          calls[c].pc = "enq" =>
              \A i \in Enqueued(c) : calls[c].args[i] \in Range(ingress)

\* both calls pushed MaxPushLen tasks, the second call's tasks entered q.q
\* first, and the first call found q.mu held on its way in
C30_Witness ==
    /\ \A c \in DOMAIN calls :
          calls[c].pc \in {"wait", "done"} /\ Len(calls[c].args) = MaxPushLen
    /\ tasks[calls[2].args[1]].seq = 1
    /\ tasks[calls[1].args[1]].seq = MaxPushLen + 1

\* C31: q.partitions holds one partitionQueue per key.  A key is stored only by
\* the producer, for the task it is routing, when that task is not timed out
\* and its key has no partitionQueue yet; a stored key is never deleted, and
\* its partitionQueue is never replaced: its tasks are appended to by the
\* producer and cleared by the consumer, nothing else.
C31_OneBufferPerKey ==
    [][/\ DOMAIN partitions \subseteq DOMAIN partitions'
       /\ \A k \in (DOMAIN partitions') \ (DOMAIN partitions) :
             /\ ppc = "route"
             /\ k = tasks[Head(ptasks)].partition
             /\ tasks'[Head(ptasks)].err # ErrorTimedOut
             /\ partitions'[k].q = <<Head(ptasks)>>
             /\ DOMAIN partitions' = (DOMAIN partitions) \cup {k}
       /\ \A k \in DOMAIN partitions :
             \/ partitions'[k] = partitions[k]
             \/ /\ ppc = "route"
                /\ k = tasks[Head(ptasks)].partition
                /\ partitions'[k].q = Append(partitions[k].q, Head(ptasks))
             \/ /\ spc = "range"
                /\ partitions'[k] = newPartitionQueue]_vars

\* a task of "q" timed out at admission and "q" has no partitionQueue, while
\* the partitionQueue of "p" was flushed and holds a task again
C31_Witness ==
    /\ DOMAIN partitions = {"p"}
    /\ \E t \in TaskIds : tasks[t].partition = "q" /\ tasks[t].err = ErrorTimedOut
    /\ \E j \in 1..Len(hlog) : hlog[j].partition = "p"
    /\ partitions["p"].q # <<>>

\* C32: the deadline of a task is consulted once, by the producer, before the
\* task enters a partition queue.  A task enters a partition queue only with
\* no error set; ErrorTimedOut is set only by the producer on the task it is
\* routing, which then enters no partition queue; every task a flush takes
\* out of a partition queue is among the tasks given to process, and every
\* task process is done with was submitted to the pool, whatever the clock
\* shows by then.
C32_DeadlineOnlyAtAdmission ==
    [][\A t \in TaskIds :
          /\ (t \in InPartitions' /\ t \notin InPartitions) =>
                 /\ ppc = "route" /\ t = Head(ptasks)
                 /\ tasks'[t].err = NoError
          /\ (tasks'[t].err = ErrorTimedOut /\ tasks[t].err # ErrorTimedOut) =>
                 /\ ppc = "route" /\ t = Head(ptasks)
                 /\ t \notin InPartitions /\ t \notin InPartitions'
                 /\ HandedAt(t) = {} /\ t \notin Range(stasks)
          /\ (t \in InPartitions /\ t \notin InPartitions') =>
                 /\ spc = "range" /\ t \in Range(stasks')
                 /\ tasks'[t].err = NoError
          /\ (t \in Range(stasks) /\ t \notin Range(stasks')) =>
                 \/ HandedAt(t)' # {}
                 \/ tasks'[t].err = ErrPoolRejected]_vars

\* a task waited in its partition queue for more than the wait threshold, was
\* flushed on age in a chunk shorter than the batch size and got its result,
\* while a task pushed with it was found timed out at admission
C32_Witness ==
    \E j \in 1..Len(hlog) :
        /\ Len(hlog[j].chunk) < bsp[hlog[j].partition]
        /\ now > Epoch + DefaultTaskWaitDuration
        /\ tasks[hlog[j].chunk[1]].result
        /\ \E u \in TaskIds :
              /\ tasks[u].err = ErrorTimedOut
              /\ tasks[u].fin = tasks[hlog[j].chunk[1]].fin

\* C33: a producer cycle that popped at least one task, timed out or not,
\* gets back to popN only through its send on triggerC, which completes only
\* together with the consumer's receive in select, and that receive starts one
\* iteratePartitions; a cycle that popped nothing goes back to popN, or out of
\* the loop, without a send.  Tasks leave q.q only in popN.
C33_TriggerPerCycle ==
    [][/\ (ppc # "pop" /\ ppc' = "pop") =>
             /\ ppc = "trigger"
             /\ spc = "select" /\ spc' = "range"
             /\ ssnap' = DOMAIN partitions /\ svisited' = {}
       /\ (ppc = "pop" /\ ptasks' # ptasks) =>
             /\ ptasks = <<>> /\ ppc' = "route"
             /\ UNCHANGED <<spc, ssnap, svisited>>
       /\ (ppc = "pop" /\ ptasks' = ptasks) => (ppc' \in {"pop", "done"} /\ ptasks = <<>>)
       /\ (ppc \in {"route", "check", "send"}) =>
             ppc' \in {"route", "check", "send", "trigger"}
       /\ (ppc = "trigger" /\ ppc' # "trigger") => (ppc' = "pop" /\ ptasks = <<>>)
       /\ (Len(ingress') < Len(ingress)) => ppc = "pop"]_vars

\* every task of the producer's cycle timed out, its trigger is pending while
\* the consumer is busy, and q.q holds a task for the next cycle
C33_Witness ==
    /\ ppc = "trigger"
    /\ spc # "select"
    /\ ingress # <<>>
    /\ \E t \in Entered : t \notin Range(ingress)
    /\ \A t \in Entered : t \notin Range(ingress) => tasks[t].err = ErrorTimedOut

\* C34: Range's callback reads the batch size of its key once.  The value the
\* provider holds at that moment decides the flush (maybePop) and is the one
\* process cuts every chunk of that flush with, whatever Set does while the
\* chunks are dispatched; the callback of the next pass reads the provider
\* again.
C34_SizeReadOncePerPass ==
    [][/\ \A k \in DOMAIN partitions :
             (spc = "range" /\ svisited' = svisited \cup {k} /\ k \notin svisited) =>
                LET r == maybePop(partitions[k], bsp[k])
                IN  /\ partitions'[k] = r.pq
                    /\ r.out # <<>> => (stasks' = r.out /\ sB' = bsp[k] /\ si' = 0)
                    /\ r.out = <<>> => spc' = "range"
       /\ (stasks # <<>> /\ stasks' # <<>>) => sB' = sB
       /\ Len(hlog') = Len(hlog) + 1 =>
             LET e == hlog'[Len(hlog')]
             IN  /\ e.chunk = SubSeq(stasks, sB * si + 1, Min(sB * (si + 1), Len(stasks)))
                 /\ e.chunk # <<>>]_vars

\* a flush of three tasks is being cut with the size read for it, 1, after
\* Set made the provider's size for the partition 2
C34_Witness ==
    /\ spc = "invoke"
    /\ Len(stasks) = 3
    /\ si = 1
    /\ sB = 1
    /\ bsp["p"] = 2
    /\ Len(hlog) > 0 /\ hlog[Len(hlog)].chunk = <<stasks[1]>>

\* C35: after Close() the producer leaves its loop.  The loop is left only at
\* line 223, on reading FlagClosing, so the producer is never still in its
\* loop once the flag is FlagClosed for good (no Close call has its write
\* pending): from there on no read of line 223 finds FlagClosing.
C35_ProducerTerminates ==
    ~(closeCalls > 0 /\ flag = FlagClosed /\ closePending = 0 /\ ppc # "done")

\* C36: a caller that pushed A for "p" and then B for "q" and receives from
\* A's channel first gets both values, for every pool size.  So it never
\* happens that, while the caller waits on A's channel, every worker of the
\* pool is blocked in the send on B's channel and a task of A is still on its
\* way to the pool (in its partition queue or in the chunk process is
\* submitting): from there on no worker gets free and A never completes.
C36_BothReceived ==
    ~(/\ calls[1].pc = "wait" /\ calls[2].pc = "wait"
      /\ \A x \in 1..Len(calls[1].args) : tasks[calls[1].args[x]].partition = "p"
      /\ \A x \in 1..Len(calls[2].args) : tasks[calls[2].args[x]].partition = "q"
      /\ \A w \in DOMAIN workers :
            workers[w].pc = "send" /\ tasks[WorkerTask(w)].fin = 2
      /\ \E t \in Range(calls[1].args) : t \in InPartitions \cup Range(stasks))

\* the tasks of the calls other than the first that are accepted and have no
\* result or error yet
OthersPending == {t \in TaskIds : tasks[t].fin > 1 /\ tasks[t].cb = 0}

\* C37: a call whose channel is never received from (here the first) holds up
\* no other call.  So no task of another call ever waits for a goroutine that
\* is blocked in the send on the first call's channel: not for the producer
\* (the send of a timed out task) while it is in q.q or among the popped
\* tasks, not for the consumer (the send of a refused task) while it is in a
\* partition queue or in the flush under dispatch, and not for the pool while
\* all of its workers are in that send.
C37_AbandonedCallIsolated ==
    /\ ~(/\ ppc = "send" /\ tasks[Head(ptasks)].fin = 1
         /\ OthersPending \cap (Range(ingress) \cup Range(ptasks)) # {})
    /\ ~(/\ spc = "send" /\ tasks[Head(sfail)].fin = 1
         /\ OthersPending \cap (InPartitions \cup Range(stasks)) # {})
    /\ ~(/\ \A w \in DOMAIN workers :
               workers[w].pc = "send" /\ tasks[WorkerTask(w)].fin = 1
         /\ OthersPending \cap (InPartitions \cup Range(stasks)) # {})

\* C39: whatever size the provider returns for a partition, zero and negative
\* sizes included, a pass that pops tasks from that partition's queue goes on:
\* the consumer does not panic, and every popped task is among the tasks
\* process cuts into chunks for the pool.
C39_AnyBatchSize ==
    [][/\ spc' # "panic"
       /\ \A t \in TaskIds :
             (t \in InPartitions /\ t \notin InPartitions') => t \in Range(stasks')]_vars

\* how many times task t occurs in the sequence ts
Occ(ts, t) == Cardinality({i \in 1..Len(ts) : ts[i] = t})

\* the places task t is in, counted with multiplicity: q.q or the batch the
\* producer popped from it and is routing; the partition queues; on its way
\* through the pool (the part of a flush process has not submitted yet, or
\* the chunk of a worker) with its setter not yet called; terminal (its
\* setter was called)
PlacesOf(t) ==
    LET open == IF tasks[t].cb = 0 THEN 1 ELSE 0
        PartitionOcc[ks \in SUBSET DOMAIN partitions] ==
            IF ks = {} THEN 0
            ELSE LET k == CHOOSE x \in ks : TRUE
                 IN  Occ(partitions[k].q, t) + PartitionOcc[ks \ {k}]
        WorkerOcc[ws \in SUBSET DOMAIN workers] ==
            IF ws = {} THEN 0
            ELSE LET w == CHOOSE x \in ws : TRUE
                 IN  Occ(workers[w].chunk, t) + WorkerOcc[ws \ {w}]
    IN  Occ(ingress, t) + open * Occ(ptasks, t)
        + PartitionOcc[DOMAIN partitions]
        + open * Occ(SubSeq(stasks, sB * si + 1, Len(stasks)), t)
        + open * WorkerOcc[DOMAIN workers]
        + (1 - open)

\* C38: every task of an accepted Push is in exactly one place: q.q (or the
\* batch the producer popped from it), one partition queue, that of its own
\* key, a flush on its way through the pool, or terminal.  No step puts a task
\* in two places or in none.
C38_TaskInOnePlace ==
    \A t \in Entered :
        /\ PlacesOf(t) = 1
        /\ \A k \in DOMAIN partitions :
              t \in Range(partitions[k].q) => k = tasks[t].partition

\* C40: at most one pre-refresh goroutine of a FailOverCache runs at any time,
\* whatever the keys of the Get calls, and c.lock is held exactly while one
\* runs.  The goroutine releases the lock when it ends, whether its refresh
\* function succeeded or failed, and a Get that hits with less than
\* DefaultCachePreUpdateDuration left starts one exactly when none is running.
C40_OnePreRefresh ==
    /\ [](/\ Cardinality(InFlight) <= 1
          /\ lock = locked <=> InFlight # {})
    /\ [][\A g \in GetIds :
            /\ (g \in InFlight /\ g \notin InFlight') => lock' = unlocked
            /\ (gets[g].pc = "hit" /\ gets'[g].pc = "return") =>
                  (gets'[g].spawned <=> (Update(g) /\ InFlight = {}))]_vars

\* the pre-refresh one Get started has ended with a failed refresh function,
\* and the pre-refresh a later Get started for the other key is running
C40_Witness ==
    \E g, h \in GetIds :
        /\ gets[g].spawned /\ gets[h].spawned
        /\ gets[g].key # gets[h].key
        /\ g \notin InFlight /\ gets[g].err # 0
        /\ h \in InFlight

====
